---------------------------- MODULE Spec2Model ----------------------------
(***************************************************************************)
(* A model of the judging engine of local_oj (judge.js, the second of the  *)
(* two revisions stored in src/db/init.sql, lines 971-1595) and of the      *)
(* text functions it is built from.                                         *)
(*                                                                          *)
(* Texts are sequences of one-character strings, so that trimming, case     *)
(* folding, JSON parsing and comparison are computed character by           *)
(* character as the code computes them.  A nullable text is the record      *)
(* [isNull, text]; a nullable number is the record [isNull, n].             *)
(***************************************************************************)
EXTENDS Integers, Sequences, FiniteSets, TLC

(***************************************************************************)
(* Nullable values (JavaScript null).                                       *)
(***************************************************************************)
NullText == [isNull |-> TRUE, text |-> <<>>]
Txt(s) == [isNull |-> FALSE, text |-> s]
NullNum == [isNull |-> TRUE, n |-> 0]
Num(k) == [isNull |-> FALSE, n |-> k]
\* a || b on nullable texts: a when a is a non-empty string, else b
OrText(a, b) == IF a.isNull \/ a.text = <<>> THEN b ELSE a
\* a ?? "" on a nullable text
OrEmpty(a) == IF a.isNull THEN <<>> ELSE a.text

(***************************************************************************)
(* Characters.  The whitespace of the alphabet used here is space, tab,     *)
(* line feed and carriage return: String.prototype.trim and JSON both       *)
(* treat these four as whitespace.                                          *)
(***************************************************************************)
WhiteSpace == {" ", "\t", "\n", "\r"}
Digits == <<"0", "1", "2", "3", "4", "5", "6", "7", "8", "9">>
UpperCase == <<"A", "B", "C", "D", "E", "F", "G", "H", "I", "J", "K", "L", "M",
               "N", "O", "P", "Q", "R", "S", "T", "U", "V", "W", "X", "Y", "Z">>
LowerCase == <<"a", "b", "c", "d", "e", "f", "g", "h", "i", "j", "k", "l", "m",
               "n", "o", "p", "q", "r", "s", "t", "u", "v", "w", "x", "y", "z">>

IsDigit(c) == \E i \in 1..10 : Digits[i] = c
DigitValue(c) == (CHOOSE i \in 1..10 : Digits[i] = c) - 1
LowerChar(c) ==
    IF \E i \in 1..26 : UpperCase[i] = c
    THEN LowerCase[CHOOSE i \in 1..26 : UpperCase[i] = c]
    ELSE c

\* String.prototype.toLowerCase
ToLowerCase(s) == [i \in 1..Len(s) |-> LowerChar(s[i])]

RECURSIVE TrimStart(_)
TrimStart(s) ==
    IF s = <<>> \/ Head(s) \notin WhiteSpace THEN s ELSE TrimStart(Tail(s))

\* String.prototype.trimEnd
RECURSIVE TrimEnd(_)
TrimEnd(s) ==
    IF s = <<>> \/ s[Len(s)] \notin WhiteSpace
    THEN s
    ELSE TrimEnd(SubSeq(s, 1, Len(s) - 1))

\* String.prototype.trim
Trim(s) == TrimEnd(TrimStart(s))

\* whether pat occurs in s at position i
MatchAt(s, i, pat) ==
    /\ i >= 1
    /\ i + Len(pat) - 1 <= Len(s)
    /\ \A j \in 1..Len(pat) : s[i + j - 1] = pat[j]

\* String.prototype.startsWith
StartsWith(s, pat) == MatchAt(s, 1, pat)

\* String.prototype.includes
Includes(s, pat) == \E i \in 1..(Len(s) + 1) : MatchAt(s, i, pat)

\* String.prototype.replace with a global literal pattern: leftmost matches,
\* left to right, not overlapping
RECURSIVE ReplaceAll(_, _, _)
ReplaceAll(s, pat, rep) ==
    IF s = <<>> THEN <<>>
    ELSE IF MatchAt(s, 1, pat)
         THEN rep \o ReplaceAll(SubSeq(s, Len(pat) + 1, Len(s)), pat, rep)
         ELSE <<Head(s)>> \o ReplaceAll(Tail(s), pat, rep)

(***************************************************************************)
(* JSON.parse, on the grammar of RFC 8259 without fractions, exponents,     *)
(* \b, \f and \u escapes (no text of the model holds one).  A JSON value is *)
(* the record [t, b, n, s, m]: t its type, b a boolean's value, n a         *)
(* number's, s a string's, m the members of an object (key k, value v, in   *)
(* source order) or the elements of an array (k empty).                     *)
(***************************************************************************)
JVal(t, b, n, s, m) == [t |-> t, b |-> b, n |-> n, s |-> s, m |-> m]
JUndefined == JVal("undefined", FALSE, 0, <<>>, <<>>)
JNull == JVal("null", FALSE, 0, <<>>, <<>>)
JBool(b) == JVal("boolean", b, 0, <<>>, <<>>)
JNum(n) == JVal("number", FALSE, n, <<>>, <<>>)
JStr(s) == JVal("string", FALSE, 0, s, <<>>)
JObj(m) == JVal("object", FALSE, 0, <<>>, m)
JArr(m) == JVal("array", FALSE, 0, <<>>, m)

\* a parse step: ok, the value read, and the position after it
POk(v, p) == [ok |-> TRUE, val |-> v, pos |-> p]
PFail == [ok |-> FALSE, val |-> JUndefined, pos |-> 0]

RECURSIVE SkipWs(_, _)
SkipWs(s, i) ==
    IF i <= Len(s) /\ s[i] \in WhiteSpace THEN SkipWs(s, i + 1) ELSE i

ParseLiteral(s, i, lit, v) ==
    IF MatchAt(s, i, lit) THEN POk(v, i + Len(lit)) ELSE PFail

JsonEscapes == {"\"", "\\", "/", "n", "t", "r"}
Unescape(c) ==
    CASE c = "n" -> "\n"
      [] c = "t" -> "\t"
      [] c = "r" -> "\r"
      [] OTHER -> c

\* the characters of a string literal from position i (after the opening quote)
RECURSIVE ScanString(_, _, _)
ScanString(s, i, acc) ==
    IF i > Len(s) THEN PFail
    ELSE IF s[i] = "\"" THEN POk(JStr(acc), i + 1)
    ELSE IF s[i] = "\\"
         THEN IF i + 1 <= Len(s) /\ s[i + 1] \in JsonEscapes
              THEN ScanString(s, i + 2, Append(acc, Unescape(s[i + 1])))
              ELSE PFail
    ELSE IF s[i] \in {"\n", "\t", "\r"} THEN PFail
    ELSE ScanString(s, i + 1, Append(acc, s[i]))

RECURSIVE ScanDigits(_, _, _)
ScanDigits(s, i, acc) ==
    IF i <= Len(s) /\ IsDigit(s[i])
    THEN ScanDigits(s, i + 1, acc * 10 + DigitValue(s[i]))
    ELSE POk(JNum(acc), i)

\* an integer: "-"? ("0" | [1-9][0-9]*)
ParseNumber(s, i) ==
    LET neg == s[i] = "-"
        j == IF neg THEN i + 1 ELSE i
    IN  IF j > Len(s) \/ ~IsDigit(s[j]) THEN PFail
        ELSE LET r == IF s[j] = "0" THEN POk(JNum(0), j + 1)
                      ELSE ScanDigits(s, j, 0)
             IN  IF neg THEN POk(JNum(0 - r.val.n), r.pos) ELSE r

RECURSIVE ParseValue(_, _)
RECURSIVE ParseMembers(_, _, _)
RECURSIVE ParseElements(_, _, _)

\* members of an object from position i: "key" : value ( , ... )* }
ParseMembers(s, i, acc) ==
    LET k == SkipWs(s, i)
    IN  IF k > Len(s) \/ s[k] # "\"" THEN PFail
        ELSE LET key == ScanString(s, k + 1, <<>>)
             IN  IF ~key.ok THEN PFail
                 ELSE LET c == SkipWs(s, key.pos)
                      IN  IF c > Len(s) \/ s[c] # ":" THEN PFail
                          ELSE LET v == ParseValue(s, c + 1)
                               IN  IF ~v.ok THEN PFail
                                   ELSE LET e == SkipWs(s, v.pos)
                                            acc2 == Append(acc, [k |-> key.val.s, v |-> v.val])
                                        IN  IF e > Len(s) THEN PFail
                                            ELSE IF s[e] = "}" THEN POk(JObj(acc2), e + 1)
                                            ELSE IF s[e] = "," THEN ParseMembers(s, e + 1, acc2)
                                            ELSE PFail

\* elements of an array from position i: value ( , ... )* ]
ParseElements(s, i, acc) ==
    LET v == ParseValue(s, i)
    IN  IF ~v.ok THEN PFail
        ELSE LET e == SkipWs(s, v.pos)
                 acc2 == Append(acc, [k |-> <<>>, v |-> v.val])
             IN  IF e > Len(s) THEN PFail
                 ELSE IF s[e] = "]" THEN POk(JArr(acc2), e + 1)
                 ELSE IF s[e] = "," THEN ParseElements(s, e + 1, acc2)
                 ELSE PFail

ParseValue(s, i0) ==
    LET i == SkipWs(s, i0)
    IN  IF i > Len(s) THEN PFail
        ELSE CASE s[i] = "{" ->
                    LET j == SkipWs(s, i + 1)
                    IN  IF j <= Len(s) /\ s[j] = "}" THEN POk(JObj(<<>>), j + 1)
                        ELSE ParseMembers(s, i + 1, <<>>)
               [] s[i] = "[" ->
                    LET j == SkipWs(s, i + 1)
                    IN  IF j <= Len(s) /\ s[j] = "]" THEN POk(JArr(<<>>), j + 1)
                        ELSE ParseElements(s, i + 1, <<>>)
               [] s[i] = "\"" -> ScanString(s, i + 1, <<>>)
               [] s[i] = "t" -> ParseLiteral(s, i, <<"t", "r", "u", "e">>, JBool(TRUE))
               [] s[i] = "f" -> ParseLiteral(s, i, <<"f", "a", "l", "s", "e">>, JBool(FALSE))
               [] s[i] = "n" -> ParseLiteral(s, i, <<"n", "u", "l", "l">>, JNull)
               [] s[i] = "-" \/ IsDigit(s[i]) -> ParseNumber(s, i)
               [] OTHER -> PFail

\* JSON.parse: ok is FALSE where it throws a SyntaxError
JSONParse(s) ==
    LET r == ParseValue(s, 1)
    IN  IF r.ok /\ SkipWs(s, r.pos) > Len(s)
        THEN [ok |-> TRUE, val |-> r.val]
        ELSE [ok |-> FALSE, val |-> JUndefined]

\* payload.key of a parsed value: the last member of that name, else undefined
RECURSIVE LastMember(_, _, _)
LastMember(m, key, i) ==
    IF i = 0 THEN JUndefined
    ELSE IF m[i].k = key THEN m[i].v
    ELSE LastMember(m, key, i - 1)

GetField(v, key) ==
    IF v.t = "object" THEN LastMember(v.m, key, Len(v.m)) ELSE JUndefined

\* a ?? b
Coalesce(a, b) == IF a.t \in {"null", "undefined"} THEN b ELSE a

\* JavaScript truthiness of a parsed value
Truthy(v) ==
    CASE v.t \in {"null", "undefined"} -> FALSE
      [] v.t = "boolean" -> v.b
      [] v.t = "number" -> v.n # 0
      [] v.t = "string" -> v.s # <<>>
      [] OTHER -> TRUE

(***************************************************************************)
(* parseCheckerVerdict.  The result is a status, or NoVerdict for null.     *)
(***************************************************************************)
NoVerdict == "null"

KeyStatus == <<"s", "t", "a", "t", "u", "s">>
KeyResult == <<"r", "e", "s", "u", "l", "t">>
KeyVerdict == <<"v", "e", "r", "d", "i", "c", "t">>

AcceptedWords ==
    { <<"a", "c", "c", "e", "p", "t", "e", "d">>,
      <<"a", "c">>,
      <<"o", "k">>,
      <<"p", "a", "s", "s">>,
      <<"p", "a", "s", "s", "e", "d">>,
      <<"t", "r", "u", "e">> }
WrongWords ==
    { <<"w", "r", "o", "n", "g", " ", "a", "n", "s", "w", "e", "r">>,
      <<"w", "r", "o", "n", "g">>,
      <<"w", "a">>,
      <<"f", "a", "i", "l">>,
      <<"f", "a", "i", "l", "e", "d">>,
      <<"f", "a", "l", "s", "e">> }

\* the vocabulary match of lines 1036-1049
MatchVocabulary(trimmed) ==
    LET normalized == ToLowerCase(trimmed)
    IN  IF normalized \in AcceptedWords THEN "Accepted"
        ELSE IF normalized \in WrongWords THEN "Wrong Answer"
        ELSE NoVerdict

\* the value the code reads out of a parsed payload (lines 1019-1024)
PayloadValue(payload) ==
    IF payload.t = "string" THEN payload
    ELSE IF Truthy(payload) /\ payload.t \in {"object", "array"}
         THEN Coalesce(GetField(payload, KeyStatus),
                       Coalesce(GetField(payload, KeyResult),
                                GetField(payload, KeyVerdict)))
         ELSE payload

\* whether the code tries JSON.parse on the trimmed text (line 1016)
TriesJson(trimmed) == StartsWith(trimmed, <<"{">>)

RECURSIVE parseCheckerVerdict(_)
parseCheckerVerdict(text) ==
    LET trimmed == Trim(text)
    IN  IF trimmed = <<>> THEN NoVerdict
        ELSE LET parsed == JSONParse(trimmed)
                 value == PayloadValue(parsed.val)
             IN  IF TriesJson(trimmed) /\ ~parsed.ok THEN NoVerdict
                 ELSE IF TriesJson(trimmed) /\ value.t = "boolean"
                      THEN (IF value.b THEN "Accepted" ELSE "Wrong Answer")
                 ELSE IF TriesJson(trimmed) /\ value.t = "string"
                      THEN parseCheckerVerdict(value.s)
                 ELSE MatchVocabulary(trimmed)

(***************************************************************************)
(* Command templates (normalizeCommand, fillPlaceholders).  A template as   *)
(* stored is a JavaScript value: null, an array, a string of JSON text, or  *)
(* anything else a JSONB column can hold.                                   *)
(***************************************************************************)
normalizeCommand(value) ==
    IF ~Truthy(value) THEN JNull
    ELSE IF value.t = "array" THEN value
    ELSE IF value.t = "string"
         THEN LET p == JSONParse(value.s) IN IF p.ok THEN p.val ELSE JNull
    ELSE JNull

IsWordChar(c) ==
    \/ IsDigit(c)
    \/ c = "_"
    \/ \E i \in 1..26 : UpperCase[i] = c \/ LowerCase[i] = c

\* the end of the run of word characters that starts at position i
RECURSIVE WordEnd(_, _)
WordEnd(s, i) == IF i <= Len(s) /\ IsWordChar(s[i]) THEN WordEnd(s, i + 1) ELSE i

\* the methods a plain object inherits from Object.prototype
InheritedMethods ==
    {<<"_", "_", "d", "e", "f", "i", "n", "e", "G", "e", "t", "t", "e", "r", "_", "_">>,
     <<"_", "_", "d", "e", "f", "i", "n", "e", "S", "e", "t", "t", "e", "r", "_", "_">>,
     <<"h", "a", "s", "O", "w", "n", "P", "r", "o", "p", "e", "r", "t", "y">>,
     <<"_", "_", "l", "o", "o", "k", "u", "p", "G", "e", "t", "t", "e", "r", "_", "_">>,
     <<"_", "_", "l", "o", "o", "k", "u", "p", "S", "e", "t", "t", "e", "r", "_", "_">>,
     <<"i", "s", "P", "r", "o", "t", "o", "t", "y", "p", "e", "O", "f">>,
     <<"p", "r", "o", "p", "e", "r", "t", "y", "I", "s", "E", "n", "u", "m", "e", "r", "a", "b", "l", "e">>,
     <<"t", "o", "S", "t", "r", "i", "n", "g">>,
     <<"v", "a", "l", "u", "e", "O", "f">>,
     <<"t", "o", "L", "o", "c", "a", "l", "e", "S", "t", "r", "i", "n", "g">>}

\* String(f) of a built-in function named name
NativeFunctionText(name) ==
    <<"f", "u", "n", "c", "t", "i", "o", "n", " ">> \o name
        \o <<"(", ")", " ", "{", " ", "[", "n", "a", "t", "i", "v", "e", " ", "c", "o", "d", "e", "]", " ", "}">>

\* replacements[key] ?? "": a property lookup on the object literal
\* {src, exe, workdir}, which also finds what the object inherits
Replacement(replacements, key) ==
    CASE key = <<"s", "r", "c">> -> replacements.src
      [] key = <<"e", "x", "e">> -> replacements.exe
      [] key = <<"w", "o", "r", "k", "d", "i", "r">> -> replacements.workdir
      [] key = <<"c", "o", "n", "s", "t", "r", "u", "c", "t", "o", "r">> -> NativeFunctionText(<<"O", "b", "j", "e", "c", "t">>)
      [] key = <<"_", "_", "p", "r", "o", "t", "o", "_", "_">> -> <<"[", "o", "b", "j", "e", "c", "t", " ", "O", "b", "j", "e", "c", "t", "]">>
      [] key \in InheritedMethods -> NativeFunctionText(key)
      [] OTHER -> <<>>

\* arg.replace(/\{(\w+)\}/g, ...)
RECURSIVE FillArg(_, _)
FillArg(s, replacements) ==
    IF s = <<>> THEN <<>>
    ELSE LET e == WordEnd(s, 2)
         IN  IF Head(s) = "{" /\ e > 2 /\ e <= Len(s) /\ s[e] = "}"
             THEN Replacement(replacements, SubSeq(s, 2, e - 1))
                     \o FillArg(SubSeq(s, e + 1, Len(s)), replacements)
             ELSE <<Head(s)>> \o FillArg(Tail(s), replacements)

\* fillPlaceholders: threw where args.map or arg.replace is not a function
fillPlaceholders(args, replacements) ==
    IF args.t # "array" \/ \E i \in 1..Len(args.m) : args.m[i].v.t # "string"
    THEN [threw |-> TRUE, argv |-> <<>>]
    ELSE [threw |-> FALSE,
          argv |-> [i \in 1..Len(args.m) |-> FillArg(args.m[i].v.s, replacements)]]

(***************************************************************************)
(* normalizeOutput and normalizeTestcaseText.                               *)
(***************************************************************************)
normalizeOutput(text) == TrimEnd(ReplaceAll(text, <<"\r", "\n">>, <<"\n">>))

normalizeTestcaseText(text) ==
    IF text.isNull THEN <<>>
    ELSE IF Includes(text.text, <<"\n">>) \/ Includes(text.text, <<"\r">>)
         THEN text.text
    ELSE LET t1 == ReplaceAll(text.text, <<"\\", "\\", "r", "\\", "\\", "n">>, <<"\n">>)
             t2 == ReplaceAll(t1, <<"\\", "\\", "n">>, <<"\n">>)
             t3 == ReplaceAll(t2, <<"\\", "\\", "r">>, <<"\n">>)
             t4 == ReplaceAll(t3, <<"\\", "\\", "t">>, <<"\t">>)
             t5 == ReplaceAll(t4, <<"\\", "r", "\\", "n">>, <<"\n">>)
             t6 == ReplaceAll(t5, <<"\\", "n">>, <<"\n">>)
             t7 == ReplaceAll(t6, <<"\\", "r">>, <<"\n">>)
         IN  ReplaceAll(t7, <<"\\", "t">>, <<"\t">>)

(***************************************************************************)
(* Processes.  What runProcess resolves with is the record                  *)
(* [exitCode, signal, stdout, stderr, timedOut]; signal is NoSignal for     *)
(* null.  A run of a program is that record together with the wall time     *)
(* measured around it and the content of the memory probe's side file as    *)
(* read afterwards (null where reading it fails).  lingers marks a run in   *)
(* which the program closed its stdout and stderr and did not end.          *)
(***************************************************************************)
NoSignal == "null"

ProcResult(code, sig, out, err, to) ==
    [exitCode |-> code, signal |-> sig, stdout |-> out, stderr |-> err, timedOut |-> to]

ProgramRun(res, ms, file) ==
    [result |-> res, elapsedMs |-> ms, timeFile |-> file, lingers |-> FALSE]

Lingering(run) == [run EXCEPT !.lingers = TRUE]

\* lines 1094-1097 and 1195-1202: whether the program is still running when
\* the promise of runProcess resolves: the timer has killed the memory probe
\* and the program it ran goes on
LeftRunning(timeCommand, run) ==
    ~timeCommand.isNull /\ run.result.timedOut /\ run.lingers

\* Number.parseInt(text, 10) followed by Number.isFinite: null for NaN
ParseInt(text) ==
    LET t == TrimStart(text)
        signed == t # <<>> /\ Head(t) \in {"-", "+"}
        d == IF signed THEN Tail(t) ELSE t
    IN  IF d = <<>> \/ ~IsDigit(Head(d)) THEN NullNum
        ELSE LET r == ScanDigits(d, 1, 0)
             IN  IF signed /\ Head(t) = "-" THEN Num(0 - r.val.n) ELSE Num(r.val.n)

\* a reading taken from the side file whether or not the probe was used
ReadMemoryAlways(timeCommand, run) ==
    IF run.timeFile.isNull THEN NullNum ELSE ParseInt(Trim(run.timeFile.text))

\* lines 1213-1227: the peak memory read from the side file
ReadMemory(timeCommand, run) ==
    IF timeCommand.isNull \/ run.timeFile.isNull THEN NullNum
    ELSE ParseInt(Trim(run.timeFile.text))

ExecResult(status, ms, mem, out, err) ==
    [status |-> status, execTimeMs |-> ms, memoryKb |-> mem, output |-> out, error |-> err]

MsgRunNotConfigured ==
    <<"R", "u", "n", " ", "c", "o", "m", "m", "a", "n", "d", " ", "n", "o", "t", " ",
      "c", "o", "n", "f", "i", "g", "u", "r", "e", "d", ".">>

\* lines 1176-1182
NoCommandResult ==
    ExecResult("System Error", NullNum, NullNum, NullText, Txt(MsgRunNotConfigured))

\* text.trim() || null
TrimOrNull(text) == IF Trim(text) = <<>> THEN NullText ELSE Txt(Trim(text))

\* Classify without its exit-code rule: a run is judged by what it printed
ClassifyByOutput(run, memoryKb, memoryLimitKb) ==
    LET result == run.result
    IN  IF result.timedOut
        THEN ExecResult("Time Limit Exceeded", Num(run.elapsedMs), memoryKb,
                        Txt(Trim(result.stdout)), TrimOrNull(result.stderr))
        ELSE IF ~memoryLimitKb.isNull /\ ~memoryKb.isNull /\ memoryKb.n > memoryLimitKb.n
        THEN ExecResult("Memory Limit Exceeded", Num(run.elapsedMs), memoryKb,
                        TrimOrNull(result.stdout), TrimOrNull(result.stderr))
        ELSE ExecResult("OK", Num(run.elapsedMs), memoryKb,
                        TrimOrNull(result.stdout), TrimOrNull(result.stderr))

\* lines 1229-1265: the classification of a finished run
Classify(run, memoryKb, memoryLimitKb) ==
    LET result == run.result
    IN  IF result.timedOut
        THEN ExecResult("Time Limit Exceeded", Num(run.elapsedMs), memoryKb,
                        Txt(Trim(result.stdout)), TrimOrNull(result.stderr))
        ELSE IF result.exitCode # Num(0)
        THEN ExecResult("Runtime Error", Num(run.elapsedMs), memoryKb,
                        Txt(Trim(result.stdout)), TrimOrNull(result.stderr))
        ELSE IF ~memoryLimitKb.isNull /\ ~memoryKb.isNull /\ memoryKb.n > memoryLimitKb.n
        THEN ExecResult("Memory Limit Exceeded", Num(run.elapsedMs), memoryKb,
                        TrimOrNull(result.stdout), TrimOrNull(result.stderr))
        ELSE ExecResult("OK", Num(run.elapsedMs), memoryKb,
                        TrimOrNull(result.stdout), TrimOrNull(result.stderr))

\* spawn(command, ...) throws a TypeError at once where command is undefined
\* or the empty string
SpawnThrows(argv) == argv = <<>> \/ argv[1] = <<>>

\* lines 1174-1189: what executeProgram does before getTimeCommandPath:
\* "none" (no run command: it returns System Error), "throw" (a TypeError out
\* of fillPlaceholders) or "spawn"
RunPlan(language, replacements) ==
    LET runTemplate == normalizeCommand(language.run_command)
    IN  IF ~Truthy(runTemplate) THEN "none"
        ELSE IF fillPlaceholders(runTemplate, replacements).threw THEN "throw"
        ELSE "spawn"

\* lines 1190-1202: whether the spawn of runProcess throws: the command is
\* runArgs[0], or the memory probe where there is one
RunSpawnThrows(language, replacements, timeCommand) ==
    /\ timeCommand.isNull
    /\ SpawnThrows(fillPlaceholders(normalizeCommand(language.run_command), replacements).argv)

(***************************************************************************)
(* compileIfNeeded.                                                         *)
(***************************************************************************)
\* lines 1135-1145: "none" (no compile template), "throw" or "spawn"
CompilePlan(language, replacements) ==
    LET compileTemplate == normalizeCommand(language.compile_command)
        compileArgs == fillPlaceholders(compileTemplate, replacements)
    IN  IF ~Truthy(compileTemplate) THEN "none"
        ELSE IF compileArgs.threw \/ SpawnThrows(compileArgs.argv) THEN "throw"
        ELSE "spawn"

\* a compiler judged by its timeout alone
CompileOutcomeTimeoutOnly(result) ==
    IF result.timedOut
    THEN [ok |-> FALSE, output |-> Txt(Trim(result.stdout \o result.stderr))]
    ELSE [ok |-> TRUE, output |-> TrimOrNull(result.stdout \o result.stderr)]

\* lines 1155-1162: the result for a finished compiler
CompileOutcome(result) ==
    IF result.timedOut \/ result.exitCode # Num(0)
    THEN [ok |-> FALSE, output |-> Txt(Trim(result.stdout \o result.stderr))]
    ELSE [ok |-> TRUE, output |-> TrimOrNull(result.stdout \o result.stderr)]

\* line 1137
NoCompile == [ok |-> TRUE, output |-> NullText]

(***************************************************************************)
(* runTestcase: the verification of a run whose status is OK.               *)
(***************************************************************************)
MsgCheckerFailed ==
    <<"C", "h", "e", "c", "k", "e", "r", " ", "f", "a", "i", "l", "e", "d", ".">>
MsgUnrecognized ==
    <<"C", "h", "e", "c", "k", "e", "r", " ", "r", "e", "t", "u", "r", "n", "e", "d", " ",
      "a", "n", " ", "u", "n", "r", "e", "c", "o", "g", "n", "i", "z", "e", "d", " ",
      "v", "e", "r", "d", "i", "c", "t", ".">>

\* lines 1342-1354: the default judge
\* a run handed on without its output being compared
DefaultVerifyNothing(testcase, execResult) == execResult

DefaultVerify(testcase, execResult) ==
    LET expected == normalizeOutput(normalizeTestcaseText(testcase.expected_output))
        actual == normalizeOutput(OrEmpty(execResult.output))
    IN  ExecResult(IF actual = expected THEN "Accepted" ELSE "Wrong Answer",
                   execResult.execTimeMs, execResult.memoryKb,
                   execResult.output, execResult.error)

\* CheckerVerify where a checker that failed counts as a rejection
CheckerVerifyLenient(execResult, checkerResult) ==
    LET checkerVerdict == parseCheckerVerdict(OrEmpty(checkerResult.output))
    IN  IF checkerResult.status # "OK"
        THEN ExecResult("Wrong Answer", execResult.execTimeMs, execResult.memoryKb,
                        execResult.output, execResult.error)
        ELSE IF checkerVerdict = NoVerdict
        THEN ExecResult("System Error", execResult.execTimeMs, execResult.memoryKb,
                        execResult.output,
                        OrText(checkerResult.output, Txt(MsgUnrecognized)))
        ELSE ExecResult(checkerVerdict, execResult.execTimeMs, execResult.memoryKb,
                        execResult.output, execResult.error)

\* CheckerVerify where the diagnostic of an unrecognized verdict is the
\* checker's stderr
CheckerVerifyStderr(execResult, checkerResult) ==
    LET checkerVerdict == parseCheckerVerdict(OrEmpty(checkerResult.output))
    IN  IF checkerResult.status # "OK"
        THEN ExecResult("System Error", execResult.execTimeMs, execResult.memoryKb,
                        execResult.output,
                        OrText(checkerResult.error,
                               OrText(checkerResult.output, Txt(MsgCheckerFailed))))
        ELSE IF checkerVerdict = NoVerdict
        THEN ExecResult("System Error", execResult.execTimeMs, execResult.memoryKb,
                        execResult.output,
                        OrText(checkerResult.error, Txt(MsgUnrecognized)))
        ELSE ExecResult(checkerVerdict, execResult.execTimeMs, execResult.memoryKb,
                        execResult.output, execResult.error)

\* lines 1310-1339: the custom judge, given what the checker's executeProgram
\* returned
CheckerVerify(execResult, checkerResult) ==
    IF checkerResult.status # "OK"
    THEN ExecResult("System Error", execResult.execTimeMs, execResult.memoryKb,
                    execResult.output,
                    OrText(checkerResult.error,
                           OrText(checkerResult.output, Txt(MsgCheckerFailed))))
    ELSE LET checkerVerdict == parseCheckerVerdict(OrEmpty(checkerResult.output))
         IN  IF checkerVerdict = NoVerdict
             THEN ExecResult("System Error", execResult.execTimeMs, execResult.memoryKb,
                             execResult.output,
                             OrText(checkerResult.output, Txt(MsgUnrecognized)))
             ELSE ExecResult(checkerVerdict, execResult.execTimeMs, execResult.memoryKb,
                             execResult.output, execResult.error)

(***************************************************************************)
(* judgeSubmission: aggregation (lines 1465-1525).  A result is an          *)
(* ExecResult with the testcase's id.                                       *)
(***************************************************************************)
Enriched(testcase, r) ==
    [testcaseId |-> testcase.id, status |-> r.status, execTimeMs |-> r.execTimeMs,
     memoryKb |-> r.memoryKb, output |-> r.output, error |-> r.error]

\* results.find((item) => item.status !== "Accepted")?.status ?? "Accepted"
RECURSIVE FindVerdict(_, _)
FindVerdict(results, i) ==
    IF i > Len(results) THEN "Accepted"
    ELSE IF results[i].status # "Accepted" THEN results[i].status
    ELSE FindVerdict(results, i + 1)

\* the status of the last result that is not Accepted
VerdictOfLast(results) ==
    LET bad == {i \in 1..Len(results) : results[i].status # "Accepted"}
    IN  IF bad = {} THEN "Accepted"
        ELSE results[CHOOSE i \in bad : \A j \in bad : j <= i].status

Verdict(results) == FindVerdict(results, 1)

\* testcaseById.get(id): the last testcase of that id, 0 where there is none
TestcaseById(testcases, id) ==
    LET hits == {i \in 1..Len(testcases) : testcases[i].id = id}
    IN  IF hits = {} THEN 0 ELSE CHOOSE i \in hits : \A j \in hits : j <= i

HasGroups(testcases) == \E i \in 1..Len(testcases) : ~testcases[i].group_id.isNull

\* the keys of groupStats
GroupIds(testcases) ==
    {testcases[i].group_id.n : i \in {j \in 1..Len(testcases) : ~testcases[j].group_id.isNull}}

\* a group that counts as passed as soon as one of its testcases is Accepted
GroupStatPartial(testcases, results, g) ==
    LET members == {i \in 1..Len(testcases) : testcases[i].group_id = Num(g)}
        first == CHOOSE i \in members : \A j \in members : i <= j
        passed == {j \in 1..Len(results) :
                     /\ results[j].status = "Accepted"
                     /\ testcases[j].group_id = Num(g)}
    IN  [points |-> IF testcases[first].group_points.isNull THEN 0
                    ELSE testcases[first].group_points.n,
         total |-> Cardinality(members),
         passed |-> IF passed = {} THEN 0 ELSE Cardinality(members)]

\* groupStats.get(g): points from the first testcase of the group (?? 0),
\* total its testcases, passed the Accepted results that map to one of them
GroupStat(testcases, results, g) ==
    LET members == {i \in 1..Len(testcases) : testcases[i].group_id = Num(g)}
        first == CHOOSE i \in members : \A j \in members : i <= j
        passed == {j \in 1..Len(results) :
                     /\ results[j].status = "Accepted"
                     /\ TestcaseById(testcases, results[j].testcaseId) # 0
                     /\ testcases[TestcaseById(testcases, results[j].testcaseId)].group_id = Num(g)}
    IN  [points |-> IF testcases[first].group_points.isNull THEN 0
                    ELSE testcases[first].group_points.n,
         total |-> Cardinality(members),
         passed |-> Cardinality(passed)]

RECURSIVE SumGroups(_, _, _)
SumGroups(testcases, results, groups) ==
    IF groups = {} THEN 0
    ELSE LET g == CHOOSE x \in groups : TRUE
             stat == GroupStat(testcases, results, g)
         IN  (IF stat.total > 0 /\ stat.passed = stat.total THEN stat.points ELSE 0)
                + SumGroups(testcases, results, groups \ {g})

\* lines 1469-1509
Score(problem, testcases, results, verdict) ==
    IF HasGroups(testcases) THEN SumGroups(testcases, results, GroupIds(testcases))
    ELSE IF verdict = "Accepted"
         THEN (IF problem.points.isNull THEN 0 ELSE problem.points.n)
         ELSE 0

\* lines 1511-1516
RECURSIVE MaxTime(_, _, _)
MaxTime(results, i, max) ==
    IF i > Len(results) THEN max
    ELSE IF results[i].execTimeMs.isNull \/ results[i].execTimeMs.n = 0
         THEN MaxTime(results, i + 1, max)
    ELSE MaxTime(results, i + 1,
                 IF results[i].execTimeMs.n > max THEN results[i].execTimeMs.n ELSE max)

\* lines 1517-1525
RECURSIVE MaxMemory(_, _, _)
MaxMemory(results, i, max) ==
    IF i > Len(results) THEN max
    ELSE IF results[i].memoryKb.isNull THEN MaxMemory(results, i + 1, max)
    ELSE IF max.isNull \/ results[i].memoryKb.n > max.n
         THEN MaxMemory(results, i + 1, results[i].memoryKb)
    ELSE MaxMemory(results, i + 1, max)

(***************************************************************************)
(* The state of one call of judgeSubmission or runCode.                     *)
(*                                                                          *)
(* Inputs, fixed by Init: entry (which of the two is called), language,     *)
(* problem, testcases, checker, onResult (whether a callback is given),     *)
(* platform.  A program (sourceCode, checker.sourceCode) is modelled by     *)
(* what it can do: the results its compiler can end with and the runs its   *)
(* run command can make.                                                    *)
(*                                                                          *)
(* pc is the await the call is suspended at.  dirs are the workspace        *)
(* directories that exist.  procLog records every process spawned, with     *)
(* the run it made once it has closed; onResultLog every result handed to   *)
(* onResult; trace, for each result, what runTestcase did to reach it.     *)
(* input is the input given to runCode.  timeCommandChecked and            *)
(* cachedTimeCommand are the module's two globals, shared by every call     *)
(* the engine process serves: a submission judged at the same time moves    *)
(* them as well.  pc "crashed" is the engine process ended by an uncaught   *)
(* exception.  call and out hold the argument and the result of a single  *)
(* function under the specifications that apply one function.               *)
(***************************************************************************)
VARIABLES entry, language, problem, testcases, checker, sourceCode, input, onResult,
          platform, pc, dirs, checkerWorkDir, checkerContext, compileResult,
          checkerCompile, timeCommand, execResult, checkerResult, results, ret, procLog,
          onResultLog, trace, timeCommandChecked, cachedTimeCommand, call, out

inputs == <<entry, language, problem, testcases, checker, sourceCode, input, onResult,
            platform>>
globals == <<timeCommandChecked, cachedTimeCommand>>
fnvars == <<call, out>>
vars == <<entry, language, problem, testcases, checker, sourceCode, input, onResult,
          platform, pc, dirs, checkerWorkDir, checkerContext, compileResult,
          checkerCompile, timeCommand, execResult, checkerResult, results, ret, procLog,
          onResultLog, trace, timeCommandChecked, cachedTimeCommand, call, out>>

TIME_COMMAND_PATH == <<"/", "u", "s", "r", "/", "b", "i", "n", "/", "t", "i", "m", "e">>

\* the paths judgeSubmission derives from its two workspaces (lines 1368-1369,
\* 1403-1407), for a source extension "x"
CandidatePaths ==
    [src |-> <<"/", "w", "/", "M", "a", "i", "n", ".", "x">>,
     exe |-> <<"/", "w", "/", "m", "a", "i", "n">>,
     workdir |-> <<"/", "w">>]
CheckerPaths ==
    [src |-> <<"/", "c", "/", "C", "h", "e", "c", "k", "e", "r", ".", "x">>,
     exe |-> <<"/", "c", "/", "c", "h", "e", "c", "k", "e", "r">>,
     workdir |-> <<"/", "c">>]

NoRun == ProgramRun(ProcResult(NullNum, NoSignal, <<>>, <<>>, FALSE), 0, NullText)
NoExec == ExecResult("", NullNum, NullNum, NullText, NullText)

\* what a call completes with: kind "return" (keys are the properties of the
\* object returned) or "throw" (thrown names the error), "none" while it runs
NoRet ==
    [kind |-> "none", keys |-> {}, verdict |-> "", compileOutput |-> NullText,
     results |-> <<>>, score |-> 0, maxTimeMs |-> NullNum, maxMemoryKb |-> NullNum,
     exec |-> NoExec, thrown |-> ""]

Thrown(e) == [NoRet EXCEPT !.kind = "throw", !.thrown = e]

\* lines 1382-1388, 1393-1399, 1418-1424: the early returns
EarlyReturn(verdict, compileOutput) ==
    [NoRet EXCEPT !.kind = "return",
                  !.keys = {"verdict", "compileOutput", "results", "maxTimeMs", "maxMemoryKb"},
                  !.verdict = verdict,
                  !.compileOutput = compileOutput]

\* lines 1465-1534: the return after the loop
Aggregate(prob, tcs, res, compileOutput) ==
    [NoRet EXCEPT !.kind = "return",
                  !.keys = {"verdict", "compileOutput", "results", "score",
                            "maxTimeMs", "maxMemoryKb"},
                  !.verdict = Verdict(res),
                  !.compileOutput = compileOutput,
                  !.results = res,
                  !.score = Score(prob, tcs, res, Verdict(res)),
                  !.maxTimeMs = Num(MaxTime(res, 1, 0)),
                  !.maxMemoryKb = MaxMemory(res, 1, NullNum)]

\* runCode handing on the status it was given
RunCodeReturnAsIs(status, compileOutput, exec) ==
    [NoRet EXCEPT !.kind = "return",
                  !.keys = {"status", "compileOutput", "execTimeMs", "memoryKb",
                            "output", "error"},
                  !.verdict = IF exec.status = "" THEN status ELSE exec.status,
                  !.compileOutput = compileOutput,
                  !.exec = exec]

\* lines 1559-1566 and 1584-1591: what runCode returns
RunCodeReturn(status, compileOutput, exec) ==
    [NoRet EXCEPT !.kind = "return",
                  !.keys = {"status", "compileOutput", "execTimeMs", "memoryKb",
                            "output", "error"},
                  !.verdict = status,
                  !.compileOutput = compileOutput,
                  !.exec = exec]

MsgCheckerNotConfigured ==
    <<"C", "h", "e", "c", "k", "e", "r", " ", "i", "s", " ", "n", "o", "t", " ",
      "c", "o", "n", "f", "i", "g", "u", "r", "e", "d", " ", "f", "o", "r", " ",
      "t", "h", "i", "s", " ", "p", "r", "o", "b", "l", "e", "m", ".">>
MsgCheckerCompile ==
    <<"F", "a", "i", "l", "e", "d", " ", "t", "o", " ", "c", "o", "m", "p", "i", "l", "e", " ",
      "c", "h", "e", "c", "k", "e", "r", ".">>

\* problem.memory_limit_kb ?? language.default_memory_limit_kb ?? null
MemoryLimitKb ==
    IF ~problem.memory_limit_kb.isNull THEN problem.memory_limit_kb
    ELSE language.default_memory_limit_kb

\* !checker || !checker.language || !checker.sourceCode  (line 1392)
CheckerMissing == checker.isNull \/ ~checker.hasLanguage \/ checker.sourceCode.empty

\* lines 1061-1065: what fs.access of the probe leaves in cachedTimeCommand
AccessTimeCommand == IF platform.timeInstalled THEN Txt(TIME_COMMAND_PATH) ELSE NullText

Spawn(kind, index) ==
    Append(procLog, [kind |-> kind, index |-> index, closed |-> FALSE, run |-> NoRun,
                     left |-> FALSE])
Closed(run) == [procLog EXCEPT ![Len(procLog)].closed = TRUE, ![Len(procLog)].run = run]

\* an exception inside the try block: control goes to the finally block
Throw(e) ==
    /\ ret' = Thrown(e)
    /\ pc' = "rmWork"

\* a return inside the try block
Return(value) ==
    /\ ret' = value
    /\ pc' = "rmWork"

(***************************************************************************)
(* The steps of judgeSubmission (lines 1357-1541) and runCode (1543-1595).  *)
(***************************************************************************)
\* fs.mkdtemp of the candidate workspace, before the try block
Mkdtemp ==
    /\ pc = "mkdtemp"
    /\ \/ /\ dirs' = dirs \cup {"work"}
          /\ pc' = "writeFile"
          /\ ret' = ret
       \/ /\ dirs' = dirs
          /\ pc' = "rejected"
          /\ ret' = Thrown("mkdtemp")
    /\ UNCHANGED <<inputs, globals, fnvars, checkerWorkDir, checkerContext, compileResult,
                   checkerCompile, timeCommand, execResult, checkerResult, results, procLog, onResultLog, trace>>

\* fs.writeFile of the source
WriteFile ==
    /\ pc = "writeFile"
    /\ \/ pc' = "compile" /\ ret' = ret
       \/ Throw("writeFile")
    /\ UNCHANGED <<inputs, globals, fnvars, dirs, checkerWorkDir, checkerContext, compileResult,
                   checkerCompile, timeCommand, execResult, checkerResult, results, procLog, onResultLog, trace>>

\* compileIfNeeded up to its await (the candidate's at pc "compile", the
\* checker's at pc "checkerCompile")
CompileStart ==
    /\ pc \in {"compile", "checkerCompile"}
    /\ LET cand == pc = "compile"
           plan == IF cand THEN CompilePlan(language, CandidatePaths)
                   ELSE CompilePlan(checker.language, CheckerPaths)
       IN  IF plan = "none"
           THEN /\ compileResult' = IF cand THEN NoCompile ELSE compileResult
                /\ checkerCompile' = IF cand THEN checkerCompile ELSE NoCompile
                /\ pc' = IF cand THEN "compiled" ELSE "checkerCompiled"
                /\ UNCHANGED <<ret, procLog>>
           ELSE IF plan = "throw"
           THEN /\ Throw("TypeError")
                /\ UNCHANGED <<compileResult, checkerCompile, procLog>>
           ELSE /\ procLog' = Spawn(IF cand THEN "compile" ELSE "checkerCompile", 0)
                /\ pc' = IF cand THEN "compileProc" ELSE "checkerCompileProc"
                /\ UNCHANGED <<ret, compileResult, checkerCompile>>
    /\ UNCHANGED <<inputs, globals, fnvars, dirs, checkerWorkDir, checkerContext,
                   timeCommand, execResult, checkerResult, results, onResultLog, trace>>

\* the compiler closes, or could not be spawned (runProcess rejects)
CompileClose ==
    /\ pc \in {"compileProc", "checkerCompileProc"}
    /\ LET cand == pc = "compileProc"
           prog == IF cand THEN sourceCode ELSE checker.sourceCode
       IN  \/ \E r \in prog.compiles :
                /\ compileResult' = IF cand THEN CompileOutcome(r) ELSE compileResult
                /\ checkerCompile' = IF cand THEN checkerCompile ELSE CompileOutcome(r)
                /\ procLog' = Closed(ProgramRun(r, 0, NullText))
                /\ pc' = IF cand THEN "compiled" ELSE "checkerCompiled"
                /\ ret' = ret
           \/ /\ Throw("spawn")
              /\ UNCHANGED <<compileResult, checkerCompile, procLog>>
    /\ UNCHANGED <<inputs, globals, fnvars, dirs, checkerWorkDir, checkerContext,
                   timeCommand, execResult, checkerResult, results, onResultLog, trace>>

\* a loop that ends at the first result that is not Accepted
NextTestcaseUntilFailure(res) ==
    IF Len(res) < Len(testcases) /\ (res = <<>> \/ res[Len(res)].status = "Accepted")
    THEN "exec" ELSE "aggregate"

NextTestcase(res) == IF Len(res) < Len(testcases) THEN "exec" ELSE "aggregate"

\* lines 1381-1402 and 1558-1567: after the candidate's compileIfNeeded
Compiled ==
    /\ pc = "compiled"
    /\ IF ~compileResult.ok
       THEN Return(IF entry = "runCode"
                   THEN RunCodeReturn("Compilation Error", compileResult.output, NoExec)
                   ELSE EarlyReturn("Compilation Error", compileResult.output))
       ELSE IF entry = "runCode"
       THEN pc' = "exec" /\ ret' = ret
       ELSE IF problem.judge_type = "custom"
       THEN IF CheckerMissing
            THEN Return(EarlyReturn("System Error", Txt(MsgCheckerNotConfigured)))
            ELSE pc' = "checkerMkdtemp" /\ ret' = ret
       ELSE pc' = NextTestcase(results) /\ ret' = ret
    /\ UNCHANGED <<inputs, globals, fnvars, dirs, checkerWorkDir, checkerContext, compileResult,
                   checkerCompile, timeCommand, execResult, checkerResult, results, procLog, onResultLog, trace>>

\* fs.mkdtemp of the checker workspace (line 1402)
CheckerMkdtemp ==
    /\ pc = "checkerMkdtemp"
    /\ \/ /\ dirs' = dirs \cup {"checker"}
          /\ checkerWorkDir' = TRUE
          /\ pc' = "checkerWriteFile"
          /\ ret' = ret
       \/ /\ Throw("mkdtemp")
          /\ UNCHANGED <<dirs, checkerWorkDir>>
    /\ UNCHANGED <<inputs, globals, fnvars, checkerContext, compileResult,
                   checkerCompile, timeCommand, execResult, checkerResult, results, procLog, onResultLog, trace>>

\* fs.writeFile of the checker source (line 1408)
CheckerWriteFile ==
    /\ pc = "checkerWriteFile"
    /\ \/ pc' = "checkerCompile" /\ ret' = ret
       \/ Throw("writeFile")
    /\ UNCHANGED <<inputs, globals, fnvars, dirs, checkerWorkDir, checkerContext, compileResult,
                   checkerCompile, timeCommand, execResult, checkerResult, results, procLog, onResultLog, trace>>

\* a judge that goes on to the testcases whatever the checker's compiler did
CheckerCompiledAnyway ==
    /\ pc = "checkerCompiled"
    /\ checkerContext' = TRUE
    /\ pc' = NextTestcase(results)
    /\ ret' = ret
    /\ UNCHANGED <<inputs, globals, fnvars, dirs, checkerWorkDir, compileResult, checkerCompile,
                   timeCommand, execResult, checkerResult, results, procLog, onResultLog, trace>>

\* lines 1417-1432: after the checker's compileIfNeeded
CheckerCompiled ==
    /\ pc = "checkerCompiled"
    /\ IF ~checkerCompile.ok
       THEN /\ Return(EarlyReturn("System Error",
                                  OrText(checkerCompile.output, Txt(MsgCheckerCompile))))
            /\ UNCHANGED checkerContext
       ELSE /\ checkerContext' = TRUE
            /\ pc' = NextTestcase(results)
            /\ ret' = ret
    /\ UNCHANGED <<inputs, globals, fnvars, dirs, checkerWorkDir, compileResult, checkerCompile,
                   timeCommand, execResult, checkerResult, results, procLog, onResultLog, trace>>

\* lines 1193-1211: executeProgram from the value of getTimeCommandPath to
\* the await of runProcess, whose spawn may throw at once
ExecSpawn(cand, path) ==
    /\ timeCommand' = path
    /\ IF RunSpawnThrows(IF cand THEN language ELSE checker.language,
                         IF cand THEN CandidatePaths ELSE CheckerPaths, path)
       THEN Throw("TypeError") /\ UNCHANGED procLog
       ELSE /\ procLog' = Spawn(IF cand THEN "run" ELSE "checker", Len(results) + 1)
            /\ pc' = IF cand THEN "runProc" ELSE "checkerProc"
            /\ ret' = ret

\* executeProgram up to its first await that waits (lines 1174-1211): the
\* candidate's at pc "exec", the checker's at pc "checkerExec".  Where
\* getTimeCommandPath (lines 1052-1067) returns without fs.access, that
\* await is the one of runProcess
ExecStart ==
    /\ pc \in {"exec", "checkerExec"}
    /\ LET cand == pc = "exec"
           lang == IF cand THEN language ELSE checker.language
           paths == IF cand THEN CandidatePaths ELSE CheckerPaths
           plan == RunPlan(lang, paths)
       IN  IF plan = "none"
           THEN /\ execResult' = IF cand THEN NoCommandResult ELSE execResult
                /\ checkerResult' = IF cand THEN checkerResult ELSE NoCommandResult
                /\ pc' = IF cand THEN "executed" ELSE "checkerExecuted"
                /\ UNCHANGED <<ret, procLog, timeCommand, globals>>
           ELSE IF plan = "throw"
           THEN /\ Throw("TypeError")
                /\ UNCHANGED <<execResult, checkerResult, procLog, timeCommand, globals>>
           ELSE IF timeCommandChecked
           THEN /\ ExecSpawn(cand, cachedTimeCommand)
                /\ UNCHANGED <<execResult, checkerResult, globals>>
           ELSE IF platform.win32
           THEN /\ timeCommandChecked' = TRUE
                /\ ExecSpawn(cand, NullText)
                /\ UNCHANGED <<execResult, checkerResult, cachedTimeCommand>>
           ELSE /\ timeCommandChecked' = TRUE
                /\ pc' = IF cand THEN "access" ELSE "checkerAccess"
                /\ UNCHANGED <<execResult, checkerResult, cachedTimeCommand, timeCommand,
                               ret, procLog>>
    /\ UNCHANGED <<inputs, fnvars, dirs, checkerWorkDir, checkerContext, compileResult,
                   checkerCompile, results, onResultLog, trace>>

\* lines 1060-1066 and 1192-1211: the fs.access of getTimeCommandPath settles
\* and executeProgram goes on to runProcess
ExecAccess ==
    /\ pc \in {"access", "checkerAccess"}
    /\ cachedTimeCommand' = AccessTimeCommand
    /\ ExecSpawn(pc = "access", AccessTimeCommand)
    /\ UNCHANGED <<inputs, fnvars, timeCommandChecked, dirs, checkerWorkDir, checkerContext,
                   compileResult, checkerCompile, execResult, checkerResult, results,
                   onResultLog, trace>>

\* lines 1053-1059 in the executeProgram of another call served by the
\* same engine process, the first to get there: it sets timeCommandChecked
\* while this call is at one of its awaits, and goes on to await fs.access
\* (on win32 it returns null)
OtherCall ==
    /\ pc \notin {"returned", "rejected", "crashed"}
    /\ ~timeCommandChecked
    /\ timeCommandChecked' = TRUE
    /\ UNCHANGED <<inputs, fnvars, cachedTimeCommand, pc, dirs, checkerWorkDir,
                   checkerContext, compileResult, checkerCompile, timeCommand, execResult,
                   checkerResult, results, ret, procLog, onResultLog, trace>>

\* lines 1060-1066 in the executeProgram of another call, which set
\* timeCommandChecked and has awaited fs.access since: it settles while this
\* call runs (where the probe is not installed it leaves null, no change)
OtherAccess ==
    /\ pc \notin {"access", "checkerAccess", "returned", "rejected", "crashed"}
    /\ timeCommandChecked
    /\ cachedTimeCommand.isNull
    /\ ~platform.win32
    /\ platform.timeInstalled
    /\ cachedTimeCommand' = AccessTimeCommand
    /\ UNCHANGED <<inputs, fnvars, timeCommandChecked, pc, dirs, checkerWorkDir,
                   checkerContext, compileResult, checkerCompile, timeCommand, execResult,
                   checkerResult, results, ret, procLog, onResultLog, trace>>

\* the input executeProgram hands to runProcess (lines 1279, 1295-1299, 1579)
\* is not empty: runProcess writes it to the program (line 1127)
WritesInput ==
    IF pc = "checkerProc" THEN TRUE
    ELSE IF entry = "runCode" THEN normalizeTestcaseText(input) # <<>>
    ELSE normalizeTestcaseText(testcases[Len(results) + 1].input) # <<>>

\* the promise of runProcess settles (lines 1203-1212): the program closes,
\* and executeProgram goes on to read the side file of the probe or, without
\* the probe, classifies the run in the same turn (lines 1229-1265); or the
\* process could not be spawned; or the program ends without having taken
\* the input written to it and the write fails, an error of child.stdin that
\* nothing handles (lines 1127-1130): the engine process ends
ExecClose ==
    /\ pc \in {"runProc", "checkerProc"}
    /\ LET cand == pc = "runProc"
           prog == IF cand THEN sourceCode ELSE checker.sourceCode
       IN  \/ \E run \in prog.runs :
                /\ procLog' = [Closed(run) EXCEPT
                                   ![Len(procLog)].left = LeftRunning(timeCommand, run)]
                /\ ret' = ret
                /\ IF timeCommand.isNull
                   THEN LET r == Classify(run, ReadMemory(timeCommand, run), MemoryLimitKb)
                        IN  /\ execResult' = IF cand THEN r ELSE execResult
                            /\ checkerResult' = IF cand THEN checkerResult ELSE r
                            /\ pc' = IF cand THEN "executed" ELSE "checkerExecuted"
                   ELSE /\ pc' = IF cand THEN "readFile" ELSE "checkerReadFile"
                        /\ UNCHANGED <<execResult, checkerResult>>
           \/ /\ Throw("spawn")
              /\ UNCHANGED <<execResult, checkerResult, procLog>>
           \/ /\ WritesInput
              /\ pc' = "crashed"
              /\ UNCHANGED <<execResult, checkerResult, procLog, ret>>
    /\ UNCHANGED <<inputs, globals, fnvars, dirs, checkerWorkDir, checkerContext, compileResult,
                   checkerCompile, timeCommand, results, onResultLog, trace>>

\* let memoryKb of executeProgram (line 1213), held in the result in the making
MemoryRead(memoryKb) == [NoExec EXCEPT !.memoryKb = memoryKb]

\* lines 1214-1224: fs.readFile of the side file settles: the number in it
\* is parsed, or memoryKb stays null
ExecReadFile ==
    /\ pc \in {"readFile", "checkerReadFile"}
    /\ LET cand == pc = "readFile"
           m == MemoryRead(ReadMemory(timeCommand, procLog[Len(procLog)].run))
       IN  /\ execResult' = IF cand THEN m ELSE execResult
           /\ checkerResult' = IF cand THEN checkerResult ELSE m
           /\ pc' = IF cand THEN "rmTimeFile" ELSE "checkerRmTimeFile"
    /\ UNCHANGED <<inputs, globals, fnvars, dirs, checkerWorkDir, checkerContext, compileResult,
                   checkerCompile, timeCommand, results, ret, procLog, onResultLog, trace>>

\* lines 1225-1265: fs.rm of the side file settles and the run is classified,
\* or it rejects (line 1225 is outside any catch)
ExecRmTimeFile ==
    /\ pc \in {"rmTimeFile", "checkerRmTimeFile"}
    /\ LET cand == pc = "rmTimeFile"
           memoryKb == IF cand THEN execResult.memoryKb ELSE checkerResult.memoryKb
           r == Classify(procLog[Len(procLog)].run, memoryKb, MemoryLimitKb)
       IN  \/ /\ execResult' = IF cand THEN r ELSE execResult
              /\ checkerResult' = IF cand THEN checkerResult ELSE r
              /\ pc' = IF cand THEN "executed" ELSE "checkerExecuted"
              /\ ret' = ret
           \/ /\ Throw("rmTimeFile")
              /\ UNCHANGED <<execResult, checkerResult>>
    /\ UNCHANGED <<inputs, globals, fnvars, dirs, checkerWorkDir, checkerContext, compileResult,
                   checkerCompile, timeCommand, results, procLog, onResultLog, trace>>

\* lines 1454-1462: the result is pushed and handed to onResult
Push(r, how) ==
    LET enriched == Enriched(testcases[Len(results) + 1], r)
    IN  /\ results' = Append(results, enriched)
        /\ onResultLog' = IF onResult THEN Append(onResultLog, enriched) ELSE onResultLog
        /\ trace' = Append(trace, [exec |-> execResult, how |-> how,
                                   checker |-> IF how = "checker" THEN checkerResult
                                               ELSE NoExec])
        /\ pc' = IF onResult THEN "onResult" ELSE NextTestcase(Append(results, enriched))
        /\ ret' = ret

\* after the candidate's executeProgram: runCode returns (lines 1584-1591);
\* runTestcase returns, verifies by text or goes on to the checker (1290-1346)
Executed ==
    /\ pc = "executed"
    /\ IF entry = "runCode"
       THEN /\ Return(RunCodeReturn(IF execResult.status = "OK" THEN "Ran"
                                    ELSE execResult.status,
                                    compileResult.output, execResult))
            /\ UNCHANGED <<results, onResultLog, trace>>
       ELSE IF execResult.status # "OK"
       THEN Push(execResult, "none")
       ELSE IF problem.judge_type = "custom" /\ checkerContext
       THEN /\ pc' = "checkerExec"
            /\ UNCHANGED <<ret, results, onResultLog, trace>>
       ELSE Push(DefaultVerify(testcases[Len(results) + 1], execResult), "diff")
    /\ UNCHANGED <<inputs, globals, fnvars, dirs, checkerWorkDir, checkerContext, compileResult,
                   checkerCompile, timeCommand, execResult, checkerResult, procLog>>

\* after the checker's executeProgram (lines 1310-1339)
CheckerExecuted ==
    /\ pc = "checkerExecuted"
    /\ Push(CheckerVerify(execResult, checkerResult), "checker")
    /\ UNCHANGED <<inputs, globals, fnvars, dirs, checkerWorkDir, checkerContext, compileResult,
                   checkerCompile, timeCommand, execResult, checkerResult, procLog>>

\* the promise of onResult settles (line 1461)
OnResult ==
    /\ pc = "onResult"
    /\ \/ pc' = NextTestcase(results) /\ ret' = ret
       \/ Throw("onResult")
    /\ UNCHANGED <<inputs, globals, fnvars, dirs, checkerWorkDir, checkerContext, compileResult,
                   checkerCompile, timeCommand, execResult, checkerResult, results, procLog,
                   onResultLog, trace>>

\* lines 1465-1534
Aggregation ==
    /\ pc = "aggregate"
    /\ Return(Aggregate(problem, testcases, results, compileResult.output))
    /\ UNCHANGED <<inputs, globals, fnvars, dirs, checkerWorkDir, checkerContext, compileResult,
                   checkerCompile, timeCommand, execResult, checkerResult, results, procLog,
                   onResultLog, trace>>

Settled == IF ret.kind = "return" THEN "returned" ELSE "rejected"

\* the finally block: fs.rm of the candidate workspace (lines 1536, 1593).
\* Where it throws, the call rejects with that error and the rest of the
\* block is skipped
RmWork ==
    /\ pc = "rmWork"
    /\ \/ /\ dirs' = dirs \ {"work"}
          /\ pc' = IF checkerWorkDir THEN "rmChecker" ELSE Settled
          /\ ret' = ret
       \/ /\ dirs' = dirs
          /\ pc' = "rejected"
          /\ ret' = Thrown("rm")
    /\ UNCHANGED <<inputs, globals, fnvars, checkerWorkDir, checkerContext, compileResult,
                   checkerCompile, timeCommand, execResult, checkerResult, results, procLog,
                   onResultLog, trace>>

\* fs.rm of the checker workspace (lines 1537-1539)
RmChecker ==
    /\ pc = "rmChecker"
    /\ \/ /\ dirs' = dirs \ {"checker"}
          /\ pc' = Settled
          /\ ret' = ret
       \/ /\ dirs' = dirs
          /\ pc' = "rejected"
          /\ ret' = Thrown("rm")
    /\ UNCHANGED <<inputs, globals, fnvars, checkerWorkDir, checkerContext, compileResult,
                   checkerCompile, timeCommand, execResult, checkerResult, results, procLog,
                   onResultLog, trace>>

Next ==
    \/ Mkdtemp
    \/ WriteFile
    \/ CompileStart
    \/ CompileClose
    \/ Compiled
    \/ CheckerMkdtemp
    \/ CheckerWriteFile
    \/ CheckerCompiled
    \/ ExecStart
    \/ ExecAccess
    \/ OtherCall
    \/ OtherAccess
    \/ ExecClose
    \/ ExecReadFile
    \/ ExecRmTimeFile
    \/ Executed
    \/ CheckerExecuted
    \/ OnResult
    \/ Aggregation
    \/ RmWork
    \/ RmChecker

(***************************************************************************)
(* Inputs.  The texts a program prints, the templates a language holds      *)
(* and the testcases of a problem are drawn from the sets below.            *)
(***************************************************************************)
\* the largest number of testcases of a problem
MaxTests == 2

OutRight == <<"3", "\r", "\n">>  \* the answer, with a CRLF line end
OutWrong == <<"4", "\n">>
OutPlain == <<"3", "\n">>
OutPadded == <<" ", "3", "\n">>  \* the answer behind a leading space
ErrBoom == <<"b", "o", "o", "m", "\n">>
ExpectedReal == <<"3", "\n">>  \* expected output stored with a real newline
ExpectedEscaped == <<"3", "\\", "n">>  \* expected output stored with an escaped newline
FileUnder == <<"4", "8", "\n">>  \* a probe reading under the memory limit
FileOver == <<"9", "9", "\n">>  \* a probe reading over the memory limit
FileExited == <<"C", "o", "m", "m", "a", "n", "d", " ", "e", "x", "i", "t", "e", "d", " ", "w", "i", "t", "h", " ", "n", "o", "n", "-", "z", "e", "r", "o", " ", "s", "t", "a", "t", "u", "s", " ", "1", "\n", "4", "8", "\n">>  \* what the probe writes for a failed command
CompilerWarning == <<"w", "a", "r", "n", "\n">>
CompilerError == <<"e", "r", "r", "o", "r", "\n">>
SayAccepted == <<"A", "c", "c", "e", "p", "t", "e", "d", "\n">>
SayWrong == <<"W", "r", "o", "n", "g", " ", "A", "n", "s", "w", "e", "r", "\n">>
SayLower == <<"w", "r", "o", "n", "g", " ", "a", "n", "s", "w", "e", "r">>
SayObject == <<"{", "\"", "s", "t", "a", "t", "u", "s", "\"", ":", "t", "r", "u", "e", "}">>
SayQuoted == <<"\"", "o", "k", "\"">>
SayGarbage == <<" ", "g", "a", "r", "b", "a", "g", "e", "\n">>
SayBroken == <<"{", "b", "a", "d">>
ErrTraceback == <<"T", "r", "a", "c", "e", "b", "a", "c", "k", "\n">>

Exit(code, stdout, stderr) == ProcResult(Num(code), NoSignal, stdout, stderr, FALSE)
Killed(signal, stdout, stderr, timedOut) == ProcResult(NullNum, signal, stdout, stderr, timedOut)

\* a program: whether its source is the empty string, the results its
\* compiler can end with, the runs its run command can make
Program(empty, compiles, runs) == [empty |-> empty, compiles |-> compiles, runs |-> runs]

\* a candidate that answers right or wrong, hangs, or fails
CoarseCandidate ==
    Program(FALSE,
            {Exit(0, <<>>, <<>>), Exit(1, <<>>, CompilerError)},
            {ProgramRun(Exit(0, OutRight, <<>>), 5, Txt(FileUnder)),
             ProgramRun(Exit(0, OutWrong, <<>>), 5, Txt(FileUnder)),
             ProgramRun(Killed("SIGKILL", <<>>, <<>>, TRUE), 5, NullText),
             ProgramRun(Exit(1, OutRight, ErrBoom), 5, Txt(FileExited))})

\* every way a candidate's process is seen to end, with every state of the
\* probe's side file
RichResults ==
    {Exit(0, OutRight, <<>>), Exit(0, OutWrong, <<>>), Exit(0, <<>>, <<>>),
     Exit(0, OutPadded, ErrBoom), Exit(1, OutRight, ErrBoom),
     Killed("SIGSEGV", OutPlain, <<>>, FALSE),
     Killed("SIGKILL", OutPlain, <<>>, TRUE), Killed("SIGKILL", <<>>, <<>>, TRUE),
     ProcResult(Num(0), NoSignal, OutPlain, <<>>, TRUE),
     ProcResult(Num(1), NoSignal, OutPlain, <<>>, TRUE)}
RichFiles == {NullText, Txt(FileUnder), Txt(FileOver), Txt(FileExited)}
RichCandidate ==
    Program(FALSE,
            {Exit(0, <<>>, <<>>), Exit(0, <<>>, CompilerWarning),
             Exit(1, <<>>, CompilerError), Killed("SIGKILL", <<>>, <<>>, TRUE)},
            {ProgramRun(r, 5, f) : r \in RichResults, f \in RichFiles})

CoarseCheckerProgram ==
    Program(FALSE,
            {Exit(0, <<>>, <<>>), Exit(1, <<>>, CompilerError)},
            {ProgramRun(Exit(0, SayAccepted, <<>>), 3, Txt(FileUnder)),
             ProgramRun(Exit(0, SayWrong, <<>>), 3, Txt(FileUnder)),
             ProgramRun(Exit(1, <<>>, ErrTraceback), 3, Txt(FileExited))})

RichCheckerResults ==
    {Exit(0, SayAccepted, <<>>), Exit(0, SayLower, <<>>), Exit(0, SayObject, <<>>),
     Exit(0, SayQuoted, <<>>), Exit(0, SayGarbage, <<>>), Exit(0, SayBroken, ErrBoom),
     Exit(0, <<>>, <<>>), Exit(0, <<>>, ErrBoom),
     Exit(1, SayAccepted, <<>>), Exit(1, <<>>, ErrTraceback), Exit(1, <<>>, <<>>),
     Killed("SIGSEGV", SayAccepted, <<>>, FALSE),
     Killed("SIGKILL", SayAccepted, <<>>, TRUE)}
RichCheckerProgram ==
    Program(FALSE,
            {Exit(0, <<>>, <<>>), Exit(0, <<>>, CompilerWarning),
             Exit(1, <<>>, CompilerError), Exit(1, <<>>, <<>>)},
            {ProgramRun(r, 3, f) : r \in RichCheckerResults,
                                   f \in {NullText, Txt(FileUnder), Txt(FileOver)}})

\* command templates
JStrings(seq) == JArr([i \in 1..Len(seq) |-> [k |-> <<>>, v |-> JStr(seq[i])]])
ArgPython == <<"p", "y", "t", "h", "o", "n", "3">>
ArgSrc == <<"{", "s", "r", "c", "}">>
ArgExe == <<"{", "e", "x", "e", "}">>
ArgGcc == <<"g", "c", "c">>
ArgDashO == <<"-", "o">>
RunCommandText == <<"[", "\"", "p", "y", "t", "h", "o", "n", "3", "\"", ",", " ", "\"", "{", "s", "r", "c", "}", "\"", "]">>  \* a template held as JSON text
RunInterpreted == JStrings(<<ArgPython, ArgSrc>>)
RunCompiled == JStrings(<<ArgExe>>)
CompileCommand == JStrings(<<ArgGcc, ArgSrc, ArgDashO, ArgExe>>)

Language(compile, run, memory) ==
    [compile_command |-> compile, run_command |-> run, default_memory_limit_kb |-> memory]

Interpreted == Language(JNull, RunInterpreted, Num(64))
CompiledLanguage == Language(CompileCommand, RunCompiled, Num(64))

\* languages whose run command is absent, is JSON text, is broken JSON text,
\* or is an empty list
RichLanguages ==
    {Language(c, r, Num(64)) :
        c \in {JNull, CompileCommand},
        r \in {RunInterpreted, JNull, JStr(RunCommandText), JStr(SayBroken), JArr(<<>>)}}

Problem(judge_type, memory) ==
    [judge_type |-> judge_type, points |-> Num(100), memory_limit_kb |-> memory]

NoChecker ==
    [isNull |-> TRUE, hasLanguage |-> FALSE, language |-> Interpreted,
     sourceCode |-> Program(TRUE, {}, {})]
Checker(lang, prog) ==
    [isNull |-> FALSE, hasLanguage |-> TRUE, language |-> lang, sourceCode |-> prog]

RichCheckers ==
    {NoChecker,
     Checker(Interpreted, RichCheckerProgram),
     Checker(CompiledLanguage, RichCheckerProgram),
     Checker(Language(JNull, JNull, Num(64)), RichCheckerProgram),
     Checker(Interpreted, Program(TRUE, {}, {}))}

InputText == <<"1", " ", "2", "\n">>

\* the testcase with nothing for the program to read
NoInput(testcase) == [testcase EXCEPT !.input = Txt(<<>>)]

\* testcase_groups.points of the two groups of a problem
GroupPoints(g) == IF g = 1 THEN 30 ELSE 70

\* a row of the testcases query of POST /submissions (index.js lines 771-783)
Testcase(id, group, expected) ==
    [id |-> id, group_id |-> group, input |-> Txt(InputText),
     group_points |-> IF group.isNull THEN NullNum ELSE Num(GroupPoints(group.n)),
     expected_output |-> Txt(expected)]

\* the lists of n testcases, each in group 1, in group 2 or in none
TestcaseLists(n) ==
    {[i \in 1..n |-> Testcase(i, g[i], ExpectedReal)] :
        g \in [1..n -> {NullNum, Num(1), Num(2)}]}

Platforms ==
    {[win32 |-> FALSE, timeInstalled |-> TRUE],
     [win32 |-> FALSE, timeInstalled |-> FALSE],
     [win32 |-> TRUE, timeInstalled |-> FALSE]}

\* the globals of an engine process that has not run any program yet
FirstCall ==
    /\ timeCommandChecked = FALSE
    /\ cachedTimeCommand = NullText

\* the globals of an engine process at the start of a call: untouched, or
\* as the executeProgram of other submissions left them or, still at its
\* fs.access, has them (lines 1056-1065)
LaterCall ==
    /\ timeCommandChecked \in BOOLEAN
    /\ cachedTimeCommand \in {NullText, Txt(TIME_COMMAND_PATH)}
    /\ ~cachedTimeCommand.isNull =>
          timeCommandChecked /\ ~platform.win32 /\ platform.timeInstalled

\* the state of a call that has not done anything yet
FreshCall ==
    /\ dirs = {}
    /\ checkerWorkDir = FALSE
    /\ checkerContext = FALSE
    /\ compileResult = NoCompile
    /\ checkerCompile = NoCompile
    /\ timeCommand = NullText
    /\ execResult = NoExec
    /\ checkerResult = NoExec
    /\ results = <<>>
    /\ ret = NoRet
    /\ procLog = <<>>
    /\ onResultLog = <<>>
    /\ trace = <<>>

Fresh == FreshCall /\ FirstCall

\* judgeSubmission on up to MaxTests testcases, on a host without the probe
InitMany ==
    /\ entry = "judgeSubmission"
    /\ language = Interpreted
    /\ \/ problem = Problem("default", Num(64)) /\ checker = NoChecker
       \/ problem = Problem("custom", Num(64))
          /\ checker = Checker(Interpreted, CoarseCheckerProgram)
    /\ sourceCode = CoarseCandidate
    /\ input = NullText
    /\ onResult \in BOOLEAN
    /\ platform = [win32 |-> FALSE, timeInstalled |-> FALSE]
    /\ \E n \in 0..MaxTests : testcases \in TestcaseLists(n)
    /\ FirstCall

OneTestcase ==
    {<<Testcase(1, NullNum, e)>> : e \in {ExpectedReal, ExpectedEscaped}}
        \cup {<<NoInput(Testcase(1, NullNum, ExpectedReal))>>}

\* one testcase, or runCode: every ending of the candidate's process
InitRuns ==
    /\ entry \in {"judgeSubmission", "runCode"}
    /\ language = Interpreted
    /\ problem \in {Problem("default", Num(64)), Problem("default", NullNum)}
    /\ checker = NoChecker
    /\ sourceCode = RichCandidate
    /\ input \in (IF entry = "runCode" THEN {NullText, Txt(InputText)} ELSE {NullText})
    /\ onResult = FALSE
    /\ platform \in Platforms
    /\ testcases \in (IF entry = "runCode" THEN {<<>>} ELSE OneTestcase)
    /\ LaterCall

\* one testcase, or runCode: every shape of the language's templates
InitLanguages ==
    /\ entry \in {"judgeSubmission", "runCode"}
    /\ language \in RichLanguages
    /\ problem = Problem("default", Num(64))
    /\ checker = NoChecker
    /\ sourceCode = RichCandidate
    /\ input = NullText
    /\ onResult = (entry = "judgeSubmission")
    /\ platform = [win32 |-> FALSE, timeInstalled |-> FALSE]
    /\ testcases \in (IF entry = "runCode" THEN {<<>>} ELSE {<<Testcase(1, NullNum, ExpectedReal)>>})
    /\ FirstCall

\* one testcase and a checker supplied, under a custom judge and under the
\* default one: every checker and every ending of it
InitCheckers ==
    /\ entry = "judgeSubmission"
    /\ language \in {Interpreted, CompiledLanguage}
    /\ problem \in {Problem("custom", Num(64)), Problem("default", Num(64))}
    /\ checker \in RichCheckers
    /\ sourceCode = CoarseCandidate
    /\ input = NullText
    /\ onResult = TRUE
    /\ platform \in {p \in Platforms : ~p.win32}
    /\ testcases = <<Testcase(1, Num(1), ExpectedReal)>>
    /\ FirstCall

\* a candidate that may close its output and run on, past its time limit
LingeringCandidate ==
    Program(FALSE, {Exit(0, <<>>, <<>>)},
            {ProgramRun(Exit(0, OutRight, <<>>), 5, Txt(FileUnder)),
             ProgramRun(Killed("SIGKILL", OutRight, <<>>, TRUE), 9, NullText),
             Lingering(ProgramRun(Killed("SIGKILL", OutRight, <<>>, TRUE), 9, NullText))})

\* MaxTests testcases and a candidate that may run on
InitSerial ==
    /\ entry = "judgeSubmission"
    /\ language = Interpreted
    /\ problem = Problem("default", Num(64))
    /\ checker = NoChecker
    /\ sourceCode = LingeringCandidate
    /\ input = NullText
    /\ onResult = TRUE
    /\ platform \in {p \in Platforms : ~p.win32}
    /\ testcases = [i \in 1..MaxTests |-> Testcase(i, NullNum, ExpectedReal)]
    /\ FirstCall

Init ==
    /\ pc = "mkdtemp"
    /\ FreshCall
    /\ call = <<>>
    /\ out = <<>>
    /\ InitMany \/ InitRuns \/ InitLanguages \/ InitCheckers \/ InitSerial

Spec == Init /\ [][Next]_vars

(***************************************************************************)
(* parseCheckerVerdict applied to one text.                                 *)
(***************************************************************************)
\* what a checker may print, before the white space around it
ParseBodies ==
    {
     <<"A", "c", "c", "e", "p", "t", "e", "d">>,
     <<"a", "c", "c", "e", "p", "t", "e", "d">>,
     <<"A", "C">>,
     <<"o", "k">>,
     <<"p", "a", "s", "s">>,
     <<"p", "a", "s", "s", "e", "d">>,
     <<"t", "r", "u", "e">>,
     <<"T", "R", "U", "E">>,
     <<"w", "r", "o", "n", "g", " ", "a", "n", "s", "w", "e", "r">>,
     <<"W", "r", "o", "n", "g">>,
     <<"W", "A">>,
     <<"f", "a", "i", "l">>,
     <<"f", "a", "i", "l", "e", "d">>,
     <<"f", "a", "l", "s", "e">>,
     <<"\"", "o", "k", "\"">>,
     <<"\"", "A", "c", "c", "e", "p", "t", "e", "d", "\"">>,
     <<"\"", "w", "a", "\"">>,
     <<"\"", "\"">>,
     <<"{", "\"", "s", "t", "a", "t", "u", "s", "\"", ":", "t", "r", "u", "e", "}">>,
     <<"{", "\"", "s", "t", "a", "t", "u", "s", "\"", ":", "f", "a", "l", "s", "e", "}">>,
     <<"{", "\"", "r", "e", "s", "u", "l", "t", "\"", ":", "\"", "o", "k", "\"", "}">>,
     <<"{", "\"", "v", "e", "r", "d", "i", "c", "t", "\"", ":", "\"", "W", "A", "\"", "}">>,
     <<"{", "\"", "s", "t", "a", "t", "u", "s", "\"", ":", "\"", "\\", "\"", "o", "k", "\\", "\"", "\"", "}">>,
     <<"{", "\"", "s", "t", "a", "t", "u", "s", "\"", ":", "n", "u", "l", "l", ",", "\"", "r", "e", "s", "u", "l", "t", "\"", ":", "t", "r", "u", "e", "}">>,
     <<"{", "\"", "s", "t", "a", "t", "u", "s", "\"", ":", "\"", "m", "a", "y", "b", "e", "\"", "}">>,
     <<"{", "\"", "x", "\"", ":", "1", "}">>,
     <<"{", "}">>,
     <<"{", "b", "a", "d">>,
     <<"[", "t", "r", "u", "e", "]">>,
     <<"n", "u", "l", "l">>,
     <<"1">>,
     <<"y", "e", "s">>,
     <<>>,
     <<"{", "\"", "s", "t", "a", "t", "u", "s", "\"", ":", "{", "\"", "s", "t", "a", "t", "u", "s", "\"", ":", "t", "r", "u", "e", "}", "}">>,
     <<"{", "\"", "s", "t", "a", "t", "u", "s", "\"", ":", "\"", "{", "\\", "\"", "v", "e", "r", "d", "i", "c", "t", "\\", "\"", ":", "\\", "\"", "o", "k", "\\", "\"", "}", "\"", "}">>,
     <<"{", "\"", "s", "t", "a", "t", "u", "s", "\"", " ", ":", " ", "\"", "P", "a", "s", "s", "e", "d", "\"", " ", "}">>
    }

ParseInputs ==
    {lead \o b \o trail : lead \in {<<>>, <<" ">>}, b \in ParseBodies,
                          trail \in {<<>>, <<"\n">>, <<"\r", "\n">>}}

\* the inputs of a call are idle under the specifications of one function
Idle ==
    /\ entry = "none"
    /\ language = Interpreted
    /\ problem = Problem("default", Num(64))
    /\ testcases = <<>>
    /\ checker = NoChecker
    /\ sourceCode = CoarseCandidate
    /\ input = NullText
    /\ onResult = FALSE
    /\ platform = [win32 |-> FALSE, timeInstalled |-> TRUE]
    /\ Fresh

InitParse ==
    /\ pc = "parse"
    /\ Idle
    /\ call \in ParseInputs
    /\ out = NoVerdict

ParseCall ==
    /\ pc = "parse"
    /\ out' = parseCheckerVerdict(call)
    /\ pc' = "parsed"
    /\ UNCHANGED <<inputs, globals, call, dirs, checkerWorkDir, checkerContext, compileResult,
                   checkerCompile, timeCommand, execResult, checkerResult, results, ret,
                   procLog, onResultLog, trace>>

NextParse == ParseCall

SpecParse == InitParse /\ [][NextParse]_vars

(***************************************************************************)
(* executeProgram (lines 1165-1266) applied to one language and one run of  *)
(* its process, in an engine process that has not run any program yet.     *)
(* call holds the arguments and the run the process makes; out whether the  *)
(* call threw, the result it returned and the memory read from the side     *)
(* file; pc is the await the call is suspended at: "access" (fs.access),    *)
(* "process" (runProcess), "readFile", "rm" (of the side file), then        *)
(* "classified" where it has returned or thrown, or "crashed".              *)
(***************************************************************************)
ExecInputs ==
    [language : {Language(JNull, r, Num(64)) :
                    r \in {RunInterpreted, JNull, JStr(RunCommandText), JStr(SayBroken),
                           JStr(SayObject), JArr(<<>>)}},
     run : {ProgramRun(r, 5, f) : r \in RichResults, f \in RichFiles},
     memoryLimitKb : {NullNum, Num(64)}]

InitExec ==
    /\ pc = "execute"
    /\ entry = "none"
    /\ language = Interpreted
    /\ problem = Problem("default", Num(64))
    /\ testcases = <<>>
    /\ checker = NoChecker
    /\ sourceCode = CoarseCandidate
    /\ input \in {NullText, Txt(InputText)}
    /\ onResult = FALSE
    /\ platform \in Platforms
    /\ Fresh
    /\ call \in ExecInputs
    /\ out = [threw |-> FALSE, result |-> NoExec, memoryKb |-> NullNum]

execvars == <<inputs, call, dirs, checkerWorkDir, checkerContext, compileResult,
              checkerCompile, execResult, checkerResult, results, ret, procLog,
              onResultLog, trace>>

\* lines 1193-1211: from the value of getTimeCommandPath to the await of
\* runProcess, whose spawn may throw at once
ExecRun(path) ==
    /\ timeCommand' = path
    /\ IF RunSpawnThrows(call.language, CandidatePaths, path)
       THEN out' = [out EXCEPT !.threw = TRUE] /\ pc' = "classified"
       ELSE out' = out /\ pc' = "process"

\* lines 1174-1192: the call up to its return, its throw or its first await
\* that waits
ExecCall ==
    /\ pc = "execute"
    /\ LET plan == RunPlan(call.language, CandidatePaths)
       IN  IF plan = "none"
           THEN /\ out' = [out EXCEPT !.result = NoCommandResult]
                /\ pc' = "classified"
                /\ UNCHANGED <<globals, timeCommand>>
           ELSE IF plan = "throw"
           THEN /\ out' = [out EXCEPT !.threw = TRUE]
                /\ pc' = "classified"
                /\ UNCHANGED <<globals, timeCommand>>
           ELSE /\ timeCommandChecked' = TRUE
                /\ cachedTimeCommand' = cachedTimeCommand
                /\ IF platform.win32
                   THEN ExecRun(NullText)
                   ELSE pc' = "access" /\ UNCHANGED <<out, timeCommand>>
    /\ UNCHANGED execvars

\* lines 1060-1066: fs.access settles
ExecCallAccess ==
    /\ pc = "access"
    /\ cachedTimeCommand' = AccessTimeCommand
    /\ ExecRun(AccessTimeCommand)
    /\ UNCHANGED <<timeCommandChecked, execvars>>

\* lines 1203-1212: the promise of runProcess settles (the process closes,
\* or could not be spawned), or the write of the input fails and the engine
\* process ends (lines 1127-1130)
ExecCallClose ==
    /\ pc = "process"
    /\ \/ IF timeCommand.isNull
          THEN /\ out' = [out EXCEPT !.result = Classify(call.run, NullNum,
                                                        call.memoryLimitKb)]
               /\ pc' = "classified"
          ELSE out' = out /\ pc' = "readFile"
       \/ out' = [out EXCEPT !.threw = TRUE] /\ pc' = "classified"
       \/ /\ normalizeTestcaseText(input) # <<>>
          /\ out' = out
          /\ pc' = "crashed"
    /\ UNCHANGED <<globals, timeCommand, execvars>>

\* lines 1216-1224: the side file is read, or cannot be
ExecCallReadFile ==
    /\ pc = "readFile"
    /\ out' = [out EXCEPT !.memoryKb = ReadMemory(timeCommand, call.run)]
    /\ pc' = "rm"
    /\ UNCHANGED <<globals, timeCommand, execvars>>

\* lines 1225-1265: the side file is removed and the run classified, or
\* fs.rm rejects
ExecCallRm ==
    /\ pc = "rm"
    /\ \/ out' = [out EXCEPT !.result = Classify(call.run, out.memoryKb,
                                                 call.memoryLimitKb)]
       \/ out' = [out EXCEPT !.threw = TRUE]
    /\ pc' = "classified"
    /\ UNCHANGED <<globals, timeCommand, execvars>>

NextExec ==
    \/ ExecCall
    \/ ExecCallAccess
    \/ ExecCallClose
    \/ ExecCallReadFile
    \/ ExecCallRm

SpecExec == InitExec /\ [][NextExec]_vars

(***************************************************************************)
(* runProcess (lines 1087-1132): one process from its spawn to the          *)
(* settling of the promise.  call says whether the command is the memory    *)
(* probe wrapping the program, whether the command is empty (spawn throws   *)
(* at once) and whether there is input to write; out is the state of the    *)
(* process:                                                                 *)
(*   child    the process spawned ("alive", "exited" by itself, "killed",    *)
(*            or "failed": spawn returned a child that could not be started  *)
(*            and whose error event is still to come)                       *)
(*   program  the program the probe runs as its own child ("same" where     *)
(*            the process spawned is the program itself)                    *)
(*   pipes    whether the program still has its stdout and stderr open       *)
(*   background  a process the program started and left behind, which      *)
(*            inherited the pipes ("none", "alive" or "exited")             *)
(*   spawns   the calls of spawn made                                        *)
(*   late     whether the program had ended by itself when the timer fired   *)
(*   stdin    the write of the input ("none", "pending" or "written")        *)
(*   timer    the timeout ("armed", "fired" or "cleared")                    *)
(*   stdout, stderr  the lengths of the two strings accumulated             *)
(*   chunks   the data events delivered so far                              *)
(* The close event comes once the child has ended and every process that    *)
(* holds the write ends of its pipes has ended or closed them.  child.kill  *)
(* signals the child alone: a program run by the probe is not signalled     *)
(* and keeps the pipes it inherited for as long as it leaves them open, and  *)
(* so does a process the program left behind.  Data events are delivered    *)
(* until the close event, after the exit or the kill of the child too.      *)
(* child.stdin has no error handler: a write that fails is an uncaught      *)
(* exception, which ends the engine process (pc "crashed") with the promise *)
(* pending.                                                                 *)
(***************************************************************************)
OUTPUT_LIMIT == 65536

\* the largest number of data events of one process
MaxChunks == 3

\* the lengths of the chunks a stream delivers
ChunkLengths == {1, OUTPUT_LIMIT - 1, OUTPUT_LIMIT}

NoProcess ==
    [child |-> "none", program |-> "none", pipes |-> "open", background |-> "none",
     spawns |-> 0,
     stdin |-> "none", timer |-> "none", timedOut |-> FALSE, late |-> FALSE,
     stdout |-> 0, stderr |-> 0, chunks |-> 0, settled |-> "pending"]

InitProc ==
    /\ pc = "runProcess"
    /\ Idle
    /\ call \in {c \in [wrapped : BOOLEAN, empty : BOOLEAN, input : BOOLEAN] :
                    c.wrapped => ~c.empty}
    /\ out = NoProcess

procvars == <<inputs, globals, call, dirs, checkerWorkDir, checkerContext, compileResult,
              checkerCompile, timeCommand, execResult, checkerResult, results, ret,
              procLog, onResultLog, trace>>

\* line 1089: spawn throws at once (the command is undefined or empty): the
\* executor of the promise throws and the promise is rejected
SpawnTypeError ==
    /\ pc = "runProcess"
    /\ call.empty
    /\ out' = [out EXCEPT !.spawns = out.spawns + 1, !.settled = "rejected"]
    /\ pc' = "rejected"
    /\ UNCHANGED procvars

\* lines 1089-1130: spawn returns a child, started or not, the timer is armed,
\* the handlers are set and the input is written; runProcess returns its
\* promise
ChildSpawn ==
    /\ pc = "runProcess"
    /\ ~call.empty
    /\ \E started \in BOOLEAN :
          out' = [out EXCEPT !.child = IF started THEN "alive" ELSE "failed",
                             !.program = IF ~started THEN "none"
                                         ELSE IF call.wrapped THEN "alive" ELSE "same",
                             !.spawns = out.spawns + 1,
                             !.stdin = IF started /\ call.input THEN "pending" ELSE "none",
                             !.timer = "armed"]
    /\ pc' = "running"
    /\ UNCHANGED procvars

\* lines 1111-1114: the error event of a child that could not be started,
\* on a later tick
ChildError ==
    /\ pc = "running"
    /\ out.child = "failed"
    /\ out' = [out EXCEPT !.timer = "cleared", !.settled = "rejected"]
    /\ pc' = "rejected"
    /\ UNCHANGED procvars

\* some process still holds the write ends of the pipes
PipesHeld ==
    \/ out.child = "alive"
    \/ out.program = "alive" /\ out.pipes = "open"
    \/ out.background = "alive"

\* string += chunk where string.length < OUTPUT_LIMIT (lines 1100-1102, 1106-1108)
Capture(length, chunk) == IF length < OUTPUT_LIMIT THEN length + chunk ELSE length

\* the child was started: its pipes exist
Started == out.child \in {"alive", "exited", "killed"}

\* lines 1099-1103: a data event of stdout, at any time before the close
\* event: what was written to the pipe is delivered after the writer ended
\* or was killed as well
StdoutData ==
    /\ pc = "running"
    /\ Started
    /\ out.chunks < MaxChunks
    /\ \E n \in ChunkLengths :
          out' = [out EXCEPT !.stdout = Capture(out.stdout, n), !.chunks = out.chunks + 1]
    /\ UNCHANGED <<pc, procvars>>

\* lines 1105-1109: a data event of stderr, at any time before the close
\* event
StderrData ==
    /\ pc = "running"
    /\ Started
    /\ out.chunks < MaxChunks
    /\ \E n \in ChunkLengths :
          out' = [out EXCEPT !.stderr = Capture(out.stderr, n), !.chunks = out.chunks + 1]
    /\ UNCHANGED <<pc, procvars>>

\* the program ends by itself
ProgramExits ==
    /\ pc = "running"
    /\ \/ out.program = "same" /\ out.child = "alive"
          /\ out' = [out EXCEPT !.child = "exited"]
       \/ out.program = "alive"
          /\ out' = [out EXCEPT !.program = "exited"]
    /\ UNCHANGED <<pc, procvars>>

\* the program has not ended
ProgramRunning ==
    \/ out.program = "alive"
    \/ out.program = "same" /\ out.child = "alive"

\* line 1128: the input written reaches the pipe while a process has its
\* read end
StdinWritten ==
    /\ pc = "running"
    /\ out.stdin = "pending"
    /\ ProgramRunning \/ out.child = "alive" \/ out.background = "alive"
    /\ out' = [out EXCEPT !.stdin = "written"]
    /\ UNCHANGED <<pc, procvars>>

\* line 1128: the write fails with EPIPE, the read end having been closed
\* (by processes that ended or that closed their stdin and run on): an error
\* event of child.stdin, which has no handler
StdinError ==
    /\ pc = "running"
    /\ out.stdin = "pending"
    /\ pc' = "crashed"
    /\ UNCHANGED <<out, procvars>>

\* the program starts a process that stays behind when it ends
ProgramForks ==
    /\ pc = "running"
    /\ ProgramRunning
    /\ out.background = "none"
    /\ out' = [out EXCEPT !.background = "alive"]
    /\ UNCHANGED <<pc, procvars>>

\* the process left behind ends
BackgroundExits ==
    /\ pc = "running"
    /\ out.background = "alive"
    /\ out' = [out EXCEPT !.background = "exited"]
    /\ UNCHANGED <<pc, procvars>>

\* the program closes its stdout and stderr and goes on running
ProgramClosesOutput ==
    /\ pc = "running"
    /\ out.pipes = "open"
    /\ ProgramRunning
    /\ out' = [out EXCEPT !.pipes = "closed"]
    /\ UNCHANGED <<pc, procvars>>

\* the memory probe ends once the program it waits for has ended
WrapperExits ==
    /\ pc = "running"
    /\ out.program = "exited"
    /\ out.child = "alive"
    /\ out' = [out EXCEPT !.child = "exited"]
    /\ UNCHANGED <<pc, procvars>>

\* lines 1094-1097: the timer fires; child.kill("SIGKILL") ends the child
Timeout ==
    /\ pc = "running"
    /\ out.timer = "armed"
    /\ out.child # "failed"
    /\ out' = [out EXCEPT !.timer = "fired",
                          !.timedOut = TRUE,
                          !.late = ~ProgramRunning,
                          !.child = IF out.child = "alive" THEN "killed" ELSE out.child]
    /\ UNCHANGED <<pc, procvars>>

\* lines 1116-1125: the close event resolves the promise
Close ==
    /\ pc = "running"
    /\ out.child \in {"exited", "killed"}
    /\ ~PipesHeld
    /\ out.stdin # "pending"
    /\ out' = [out EXCEPT !.timer = IF out.timer = "armed" THEN "cleared" ELSE out.timer,
                          !.settled = "resolved"]
    /\ pc' = "resolved"
    /\ UNCHANGED procvars

NextProc ==
    \/ SpawnTypeError
    \/ ChildSpawn
    \/ ChildError
    \/ StdinWritten
    \/ StdinError
    \/ StdoutData
    \/ StderrData
    \/ ProgramExits
    \/ ProgramForks
    \/ BackgroundExits
    \/ ProgramClosesOutput
    \/ WrapperExits
    \/ Timeout
    \/ Close

SpecProc == InitProc /\ [][NextProc]_vars

\* the timer, the kernel and the event loop do their work; a program need
\* not ever end by itself
SpecProcFair ==
    /\ InitProc
    /\ [][NextProc]_vars
    /\ WF_vars(SpawnTypeError \/ ChildSpawn)
    /\ WF_vars(ChildError)
    /\ WF_vars(StdinWritten \/ StdinError)
    /\ WF_vars(WrapperExits)
    /\ WF_vars(Timeout)
    /\ WF_vars(Close)

(***************************************************************************)
(* getTimeCommandPath (lines 1052-1067) called by the executeProgram of     *)
(* submissions judged at the same time in one engine process.  pc maps      *)
(* each caller to where it is ("idle" before its call, "access" while it    *)
(* awaits fs.access, "returned"), out maps it to the value returned to it,  *)
(* call counts the fs.access calls made.                                    *)
(***************************************************************************)
\* the largest number of calls in flight together
MaxCallers == 4

Callers == 1..MaxCallers

InitTime ==
    /\ pc = [c \in Callers |-> "idle"]
    /\ out = [c \in Callers |-> NullText]
    /\ call = 0
    /\ entry = "none"
    /\ language = Interpreted
    /\ problem = Problem("default", Num(64))
    /\ testcases = <<>>
    /\ checker = NoChecker
    /\ sourceCode = CoarseCandidate
    /\ input = NullText
    /\ onResult = FALSE
    /\ platform \in Platforms
    /\ Fresh

timevars == <<inputs, dirs, checkerWorkDir, checkerContext, compileResult,
              checkerCompile, timeCommand, execResult, checkerResult, results, ret,
              procLog, onResultLog, trace>>

\* lines 1053-1059: the call up to its return or its await
TimeCall(c) ==
    /\ pc[c] = "idle"
    /\ IF timeCommandChecked
       THEN /\ out' = [out EXCEPT ![c] = cachedTimeCommand]
            /\ pc' = [pc EXCEPT ![c] = "returned"]
            /\ UNCHANGED <<globals, call>>
       ELSE /\ timeCommandChecked' = TRUE
            /\ IF platform.win32
               THEN /\ out' = [out EXCEPT ![c] = NullText]
                    /\ pc' = [pc EXCEPT ![c] = "returned"]
                    /\ UNCHANGED <<cachedTimeCommand, call>>
               ELSE /\ pc' = [pc EXCEPT ![c] = "access"]
                    /\ call' = call + 1
                    /\ UNCHANGED <<cachedTimeCommand, out>>
    /\ UNCHANGED timevars

\* lines 1060-1066: fs.access settles
TimeAccess(c) ==
    /\ pc[c] = "access"
    /\ cachedTimeCommand' = IF platform.timeInstalled THEN Txt(TIME_COMMAND_PATH)
                            ELSE NullText
    /\ out' = [out EXCEPT ![c] = cachedTimeCommand']
    /\ pc' = [pc EXCEPT ![c] = "returned"]
    /\ UNCHANGED <<timeCommandChecked, call, timevars>>

NextTime == \E c \in Callers : TimeCall(c) \/ TimeAccess(c)

SpecTime == InitTime /\ [][NextTime]_vars

(***************************************************************************)
(* POST /submissions (index.js lines 692-879): the handler and the          *)
(* runJudge it schedules.  call holds what the database has of the problem: *)
(* the number of its testcases, its judge_type and whether its checker      *)
(* columns are filled; out is the state of the request:                     *)
(*   response      the status answered ("none" while there is none)         *)
(*   submissionId, problem, language, checker   whether the handler's       *)
(*                 variables of these names have been assigned              *)
(*   row           the submissions row: status, score, compiler_output       *)
(*   inserted      the submission_results rows written by onResult          *)
(*   starts        how many times judgeSubmission has been called           *)
(*   judgeResult   what judgeSubmission returned                            *)
(*   error         the exception caught by runJudge ("" for none)           *)
(*   runJudge      the promise of runJudge                                  *)
(* judgeSubmission is seen from outside: it calls onResult once per         *)
(* testcase at most, then returns a value or throws.                        *)
(***************************************************************************)
NoRow == [status |-> "none", score |-> 0, compiler_output |-> ""]

NoJudgeResult == [verdict |-> "", hasScore |-> FALSE, score |-> 0, compileOutput |-> ""]

\* what judgeSubmission can return: the return after the loop (a score) and
\* the early returns (no score)
JudgeResults ==
    {[verdict |-> "Accepted", hasScore |-> TRUE, score |-> 100, compileOutput |-> ""],
     [verdict |-> "Wrong Answer", hasScore |-> TRUE, score |-> 30, compileOutput |-> "warn"],
     [verdict |-> "Time Limit Exceeded", hasScore |-> TRUE, score |-> 0, compileOutput |-> ""],
     [verdict |-> "Compilation Error", hasScore |-> FALSE, score |-> 0, compileOutput |-> "error"],
     [verdict |-> "System Error", hasScore |-> FALSE, score |-> 0,
      compileOutput |-> "Checker is not configured for this problem."]}

NoRequest ==
    [response |-> "none", submissionId |-> FALSE, problem |-> FALSE, language |-> FALSE,
     checker |-> FALSE, row |-> NoRow, inserted |-> 0, starts |-> 0, judgeResult |-> NoJudgeResult,
     error |-> "", runJudge |-> "idle"]

InitSubmit ==
    /\ pc = "request"
    /\ Idle
    /\ call \in {c \in [ntests : 0..MaxTests, judge_type : {"default", "custom"},
                          checker_source : BOOLEAN] :
                    c.judge_type = "default" => ~c.checker_source}
    /\ out = NoRequest

\* lines 695-704: the body is checked, then a connection is acquired outside
\* every try block
Validate ==
    /\ pc = "request"
    /\ \/ out' = [out EXCEPT !.response = "400"] /\ pc' = "done"
       \/ out' = out /\ pc' = "lookup"
       \/ out' = out /\ pc' = "done"
    /\ UNCHANGED procvars

\* lines 711-729: the problem is read.  Here and in the queries below, an
\* exception goes to the catch block (500) and on past the finally block; a
\* return inside the try block leaves the handler
QueryProblem ==
    /\ pc = "lookup"
    /\ \/ out' = [out EXCEPT !.response = "500"] /\ pc' = "released"
       \/ out' = [out EXCEPT !.response = "404"] /\ pc' = "done"
       \/ out' = [out EXCEPT !.problem = TRUE] /\ pc' = "language"
    /\ UNCHANGED procvars

\* lines 731-750: the language is read; under custom judging the checker
\* columns of the problem are tested
QueryLanguage ==
    /\ pc = "language"
    /\ \/ out' = [out EXCEPT !.response = "500"] /\ pc' = "released"
       \/ out' = [out EXCEPT !.response = "404"] /\ pc' = "done"
       \/ IF call.judge_type = "custom" /\ ~call.checker_source
          THEN out' = [out EXCEPT !.language = TRUE, !.response = "500"] /\ pc' = "done"
          ELSE /\ out' = [out EXCEPT !.language = TRUE]
               /\ pc' = IF call.judge_type = "custom" THEN "checkerLanguage"
                        ELSE "testcases"
    /\ UNCHANGED procvars

\* lines 752-768: the language of the checker is read
QueryCheckerLanguage ==
    /\ pc = "checkerLanguage"
    /\ \/ out' = [out EXCEPT !.response = "500"] /\ pc' = "released"
       \/ out' = [out EXCEPT !.response = "500"] /\ pc' = "done"
       \/ out' = [out EXCEPT !.checker = TRUE] /\ pc' = "testcases"
    /\ UNCHANGED procvars

\* lines 771-784: the testcases are read
QueryTestcases ==
    /\ pc = "testcases"
    /\ \/ out' = [out EXCEPT !.response = "500"] /\ pc' = "released"
       \/ out' = out /\ pc' = "insert"
    /\ UNCHANGED procvars

\* lines 786-803: the row is inserted with status Judging and the request
\* acknowledged, or the INSERT throws
Insert ==
    /\ pc = "insert"
    /\ \/ out' = [out EXCEPT !.row = [NoRow EXCEPT !.status = "Judging"],
                             !.submissionId = TRUE,
                             !.response = "202"]
       \/ out' = [out EXCEPT !.response = "500"]
    /\ pc' = "released"
    /\ UNCHANGED procvars

\* line 806: !submissionId || !problem || !language
JudgeSkipped(submissionId, problem_, language_) == ~submissionId \/ ~problem_ \/ ~language_

\* lines 806-808 and 876-878: the handler returns or schedules runJudge
Schedule ==
    /\ pc = "released"
    /\ IF JudgeSkipped(out.submissionId, out.problem, out.language)
       THEN out' = out /\ pc' = "done"
       ELSE out' = [out EXCEPT !.runJudge = "scheduled"] /\ pc' = "runJudge"
    /\ UNCHANGED procvars

\* line 811: pool.connect, before the try block
JudgeConnect ==
    /\ pc = "runJudge"
    /\ \/ out' = [out EXCEPT !.runJudge = "running"] /\ pc' = "judge"
       \/ out' = [out EXCEPT !.runJudge = "rejected"] /\ pc' = "done"
    /\ UNCHANGED procvars

\* line 813: judgeSubmission is called
JudgeStart ==
    /\ pc = "judge"
    /\ out' = [out EXCEPT !.starts = out.starts + 1]
    /\ pc' = "engine"
    /\ UNCHANGED procvars

\* lines 819-834: onResult inserts a submission_results row; where the INSERT
\* throws, so does judgeSubmission
JudgeOnResult ==
    /\ pc = "engine"
    /\ out.inserted < call.ntests
    /\ \/ out' = [out EXCEPT !.inserted = out.inserted + 1] /\ pc' = pc
       \/ out' = [out EXCEPT !.error = "insert failed"] /\ pc' = "catch"
    /\ UNCHANGED procvars

\* judgeSubmission returns or throws; or, a program having ended without
\* taking its input, the write to it fails with nothing to handle the error
\* (init.sql lines 1127-1130) and the process serving the requests ends
JudgeSettles ==
    /\ pc = "engine"
    /\ \/ \E r \in JudgeResults :
             /\ r.hasScore => out.inserted = call.ntests
             /\ ~r.hasScore => out.inserted = 0
             /\ out' = [out EXCEPT !.judgeResult = r]
             /\ pc' = "update"
       \/ out' = [out EXCEPT !.error = "spawn ENOENT"] /\ pc' = "catch"
       \/ /\ call.ntests > 0
          /\ out' = out
          /\ pc' = "crashed"
    /\ UNCHANGED procvars

\* lines 837-853: the row written from the value returned
JudgedRow(judgeResult) ==
    [status |-> judgeResult.verdict,
     score |-> IF judgeResult.hasScore THEN judgeResult.score ELSE 0,
     compiler_output |-> judgeResult.compileOutput]

\* lines 855-869: the row written by the catch block
CaughtRow(row, error) ==
    [status |-> "System Error", score |-> 0, compiler_output |-> error]

\* lines 837-853: the final UPDATE, or it throws
FinalUpdate ==
    /\ pc = "update"
    /\ \/ out' = [out EXCEPT !.row = JudgedRow(out.judgeResult)] /\ pc' = "finally"
       \/ out' = [out EXCEPT !.error = "update failed"] /\ pc' = "catch"
    /\ UNCHANGED procvars

\* lines 854-870: the catch block's UPDATE, or it throws in its turn
CatchUpdate ==
    /\ pc = "catch"
    /\ \/ out' = [out EXCEPT !.row = CaughtRow(out.row, out.error)] /\ pc' = "finally"
       \/ out' = [out EXCEPT !.runJudge = "rejecting"] /\ pc' = "finally"
    /\ UNCHANGED procvars

\* lines 871-873: the connection is released and runJudge settles
JudgeRelease ==
    /\ pc = "finally"
    /\ out' = [out EXCEPT !.runJudge = IF out.runJudge = "rejecting" THEN "rejected"
                                       ELSE "resolved"]
    /\ pc' = "done"
    /\ UNCHANGED procvars

NextSubmit ==
    \/ Validate
    \/ QueryProblem
    \/ QueryLanguage
    \/ QueryCheckerLanguage
    \/ QueryTestcases
    \/ Insert
    \/ Schedule
    \/ JudgeConnect
    \/ JudgeStart
    \/ JudgeOnResult
    \/ JudgeSettles
    \/ FinalUpdate
    \/ CatchUpdate
    \/ JudgeRelease

SpecSubmit == InitSubmit /\ [][NextSubmit]_vars

(***************************************************************************)
(* Properties.                                                              *)
(***************************************************************************)
Completed == pc \in {"returned", "rejected"}

\* the call has returned from the aggregation: the candidate compiled and,
\* under custom judging, the checker was set up
Aggregated ==
    /\ entry = "judgeSubmission"
    /\ ret.kind = "return"
    /\ compileResult.ok
    /\ problem.judge_type = "custom" => checkerContext

\* the closed processes of one kind spawned for the k-th testcase
ProcOf(kind, k) ==
    {i \in 1..Len(procLog) :
        procLog[i].kind = kind /\ procLog[i].index = k /\ procLog[i].closed}

\* C1: a judgeSubmission call that reaches aggregation returns one result per
\* testcase, in the order supplied, and its verdict is the status of the first
\* result that is not Accepted, Accepted where there is none
C1_VerdictIsFirstFailure ==
    Aggregated =>
        /\ Len(ret.results) = Len(testcases)
        /\ \A i \in 1..Len(ret.results) : ret.results[i].testcaseId = testcases[i].id
        /\ (\A i \in 1..Len(ret.results) : ret.results[i].status = "Accepted")
              => ret.verdict = "Accepted"
        /\ \A i \in 1..Len(ret.results) :
              /\ ret.results[i].status # "Accepted"
              /\ \A j \in 1..(i - 1) : ret.results[j].status = "Accepted"
              => ret.verdict = ret.results[i].status

\* a call returned Wrong Answer for a Wrong Answer followed by a time-out
C1_Witness ==
    /\ pc = "returned"
    /\ Aggregated
    /\ Len(ret.results) = 2
    /\ ret.results[1].status = "Wrong Answer"
    /\ ret.results[2].status = "Time Limit Exceeded"
    /\ ret.verdict = "Wrong Answer"

GroupPresent(g) == \E i \in 1..Len(testcases) : testcases[i].group_id = Num(g)
GroupAllAccepted(g) ==
    \A i \in 1..Len(testcases) :
        testcases[i].group_id = Num(g) => ret.results[i].status = "Accepted"
GroupAward(g) == IF GroupPresent(g) /\ GroupAllAccepted(g) THEN GroupPoints(g) ELSE 0

\* C2: where a testcase has a group_id, the score returned is the sum, over
\* the groups present, of the points of each group all of whose testcases are
\* Accepted, each counted once; testcases outside every group do not count
C2_GroupedScore ==
    Aggregated /\ HasGroups(testcases) => ret.score = GroupAward(1) + GroupAward(2)

\* a group of two testcases of which one passed earned nothing
C2_Witness ==
    /\ pc = "returned"
    /\ Aggregated
    /\ Len(testcases) = 2
    /\ testcases[1].group_id = Num(1)
    /\ testcases[2].group_id = Num(1)
    /\ ret.results[1].status = "Accepted"
    /\ ret.results[2].status = "Wrong Answer"
    /\ ret.score = 0

\* C3: where no testcase has a group_id, the value judgeSubmission returns has
\* a score, the problem's points where the verdict is Accepted and 0 for every
\* other verdict
C3_UngroupedScore ==
    /\ entry = "judgeSubmission"
    /\ ret.kind = "return"
    /\ ~HasGroups(testcases)
    => /\ "score" \in ret.keys
       /\ ret.score = IF ret.verdict = "Accepted" THEN problem.points.n ELSE 0

RunFailed(r) == r.timedOut \/ r.exitCode # Num(0) \/ r.signal # NoSignal

\* C4: a testcase whose run timed out is Time Limit Exceeded, one whose run
\* ended with a non-zero exit code or a signal is Runtime Error, whatever it
\* printed; its output is neither compared nor handed to a checker
C4_FailedRunsAreNotVerified ==
    /\ \A k \in 1..Len(results) : \A i \in ProcOf("run", k) :
          LET r == procLog[i].run.result
          IN  /\ r.timedOut => results[k].status = "Time Limit Exceeded"
              /\ ~r.timedOut /\ RunFailed(r) => results[k].status = "Runtime Error"
              /\ RunFailed(r) => trace[k].how = "none"
    /\ \A i \in 1..Len(procLog) : \A j \in 1..Len(procLog) :
          /\ procLog[i].kind = "run"
          /\ procLog[i].closed
          /\ RunFailed(procLog[i].run.result)
          /\ procLog[j].kind = "checker"
          => procLog[j].index # procLog[i].index

\* a run that printed the expected output and exited with code 1 is a
\* Runtime Error
C4_Witness ==
    \E k \in 1..Len(results) : \E i \in ProcOf("run", k) :
        /\ procLog[i].run.result.exitCode = Num(1)
        /\ procLog[i].run.result.stdout = OutRight
        /\ normalizeOutput(OutRight) = normalizeOutput(normalizeTestcaseText(testcases[k].expected_output))
        /\ results[k].status = "Runtime Error"

\* the memory a run is charged with: the number the probe wrote, where there
\* is a probe and it wrote one
PeakMemory == ReadMemory(timeCommand, call.run)

\* a run command whose normal form is a list with a command in it
UsableRunCommand(lang) ==
    LET t == normalizeCommand(lang.run_command)
    IN  t.t = "array" /\ Len(t.m) > 0

\* C5: executeProgram classifies a finished run by the first rule that
\* matches: a run command that yields no usable argument list gives System
\* Error (and the call does not throw), a time-out Time Limit Exceeded, a
\* non-zero exit code or a signal Runtime Error, a peak memory over the limit
\* Memory Limit Exceeded, anything else OK
C5_RuleOrder ==
    pc = "classified" =>
        IF ~UsableRunCommand(call.language)
        THEN ~out.threw /\ out.result.status = "System Error"
        ELSE ~out.threw =>
                out.result.status =
                    IF call.run.result.timedOut THEN "Time Limit Exceeded"
                    ELSE IF \/ call.run.result.exitCode # Num(0)
                            \/ call.run.result.signal # NoSignal
                         THEN "Runtime Error"
                    ELSE IF /\ ~PeakMemory.isNull
                            /\ ~call.memoryLimitKb.isNull
                            /\ PeakMemory.n > call.memoryLimitKb.n
                         THEN "Memory Limit Exceeded"
                    ELSE "OK"

\* C6: under custom judging, a testcase whose checker ended in a status other
\* than OK (it timed out, exited non-zero, was signalled, overran the memory
\* limit or has no run command) is System Error
C6_CheckerFailureIsSystemError ==
    \A k \in 1..Len(results) :
        /\ trace[k].how = "checker" /\ trace[k].checker.status # "OK"
              => results[k].status = "System Error"
        /\ \A i \in ProcOf("checker", k) :
              RunFailed(procLog[i].run.result) => results[k].status = "System Error"
        /\ trace[k].how = "checker" /\ ProcOf("checker", k) = {}
              => results[k].status = "System Error"

\* a checker that exited with code 1 made its testcase System Error
C6_Witness ==
    \E k \in 1..Len(results) : \E i \in ProcOf("checker", k) :
        /\ problem.judge_type = "custom"
        /\ procLog[i].run.result.exitCode = Num(1)
        /\ trace[k].checker.status = "Runtime Error"
        /\ results[k].status = "System Error"

\* the checker of the k-th testcase ended OK and printed text in which
\* parseCheckerVerdict finds no verdict
Unrecognized(k, i) ==
    /\ trace[k].how = "checker"
    /\ trace[k].checker.status = "OK"
    /\ i \in ProcOf("checker", k)
    /\ parseCheckerVerdict(procLog[i].run.result.stdout) = NoVerdict

\* C7, as stated: where the checker exits cleanly and its stdout is empty or
\* holds no verdict, the testcase is System Error and its error is the
\* checker's stdout as printed
C7_ErrorIsRawOutput ==
    \A k \in 1..Len(results) : \A i \in 1..Len(procLog) :
        Unrecognized(k, i) =>
            /\ results[k].status = "System Error"
            /\ results[k].error = Txt(procLog[i].run.result.stdout)

\* C7, amended: the testcase is System Error and its error is the checker's
\* stdout with the white space around it removed, or the fixed message
\* "Checker returned an unrecognized verdict." where nothing is left
C7_ErrorIsTrimmedOutputOrMessage ==
    \A k \in 1..Len(results) : \A i \in 1..Len(procLog) :
        Unrecognized(k, i) =>
            /\ results[k].status = "System Error"
            /\ results[k].error =
                  IF Trim(procLog[i].run.result.stdout) = <<>> THEN Txt(MsgUnrecognized)
                  ELSE Txt(Trim(procLog[i].run.result.stdout))

\* a checker printed " garbage\n" and the testcase's error is "garbage"
C7_Witness ==
    \E k \in 1..Len(results) : \E i \in 1..Len(procLog) :
        /\ Unrecognized(k, i)
        /\ procLog[i].run.result.stdout = SayGarbage
        /\ results[k].status = "System Error"
        /\ results[k].error = Txt(Trim(SayGarbage))
        /\ results[k].error # Txt(SayGarbage)

\* the parser the specification describes: JSON is tried first on every text;
\* a boolean is the verdict, a string is parsed again, an object gives its
\* status, result or verdict field; failing that the vocabulary decides
RECURSIVE ReferenceParser(_)
ReferenceParser(text) ==
    LET trimmed == Trim(text)
    IN  IF trimmed = <<>> THEN NoVerdict
        ELSE LET parsed == JSONParse(trimmed)
                 value == PayloadValue(parsed.val)
             IN  IF parsed.ok /\ value.t = "boolean"
                 THEN (IF value.b THEN "Accepted" ELSE "Wrong Answer")
                 ELSE IF parsed.ok /\ value.t = "string"
                 THEN ReferenceParser(value.s)
                 ELSE MatchVocabulary(trimmed)

\* C8: parseCheckerVerdict returns what the reference parser returns, for
\* every text a checker prints
C8_MatchesReferenceParser ==
    pc = "parsed" => out = ReferenceParser(call)

\* C9: once a call of judgeSubmission or runCode has completed, by a return or
\* by an exception of any stage, no workspace it created exists
C9_WorkspacesDeleted ==
    Completed => dirs = {}

\* the set-up of the judging failed: the candidate did not compile, or under
\* custom judging the checker is missing or did not compile
SetupFailed ==
    /\ entry = "judgeSubmission"
    /\ \/ ~compileResult.ok
       \/ /\ problem.judge_type = "custom"
          /\ checker.isNull \/ ~checker.hasLanguage \/ checker.sourceCode.empty
       \/ ~checkerCompile.ok

\* after a failed set-up no run command of the candidate has been spawned,
\* onResult has not been invoked, and what the call returns has an empty
\* results list under the verdict of the failure
NothingRunAfterSetupFailure ==
    SetupFailed =>
        /\ \A i \in 1..Len(procLog) : procLog[i].kind \notin {"run", "checker"}
        /\ onResultLog = <<>>
        /\ results = <<>>
        /\ pc \notin {"exec", "runProc", "executed", "aggregate"}
        /\ pc = "returned" =>
              /\ ret.results = <<>>
              /\ ret.verdict = IF ~compileResult.ok THEN "Compilation Error"
                               ELSE "System Error"

\* C10: where the set-up failed, no run command of the candidate is spawned,
\* onResult is not invoked, and the call, once it has taken the return of
\* the failure, returns its empty results list: it does not reject
C10_SetupFailureRunsNothing ==
    /\ []NothingRunAfterSetupFailure
    /\ [][SetupFailed /\ ret.kind = "return" => pc' # "rejected"]_vars

\* C11: a runProcess whose spawn succeeded settles: where the program does
\* not end by itself the timer fires, the process is killed and the promise
\* resolves with timedOut = true, also where the process is the memory probe
C11_SpawnedProcessSettles ==
    (pc = "running" /\ out.child = "alive") ~> (pc = "resolved")

\* C12: the stdout and the stderr a run resolves with are each at most
\* OUTPUT_LIMIT long, and output never makes the run reject
C12_OutputWithinLimit ==
    /\ pc = "resolved" => out.stdout <= OUTPUT_LIMIT /\ out.stderr <= OUTPUT_LIMIT
    /\ pc = "rejected" => out.chunks = 0

\* the process spawned last could not be spawned: runProcess rejected
SpawnFailed ==
    /\ entry = "judgeSubmission"
    /\ Len(procLog) > 0
    /\ ~procLog[Len(procLog)].closed
    /\ pc \notin {"compileProc", "checkerCompileProc", "runProc", "checkerProc", "crashed"}

\* C13: where a spawn fails, for a compiler or for the run of a testcase,
\* judgeSubmission rejects with that error: it returns no verdict and records
\* no result for the testcase of the failed spawn
C13_SpawnFailureRejects ==
    SpawnFailed =>
        LET failed == procLog[Len(procLog)]
        IN  /\ pc \in {"rmWork", "rmChecker", "rejected"}
            /\ ret.kind = "throw"
            /\ ret.thrown = "spawn"
            /\ failed.kind \in {"compile", "checkerCompile"}
                  => results = <<>> /\ onResultLog = <<>>
            /\ failed.kind \in {"run", "checker"}
                  => /\ Len(results) = failed.index - 1
                     /\ Len(onResultLog) <= failed.index - 1

\* C14: where judgeSubmission or the final UPDATE throws, the row is never
\* given a verdict of the engine; once runJudge has finished the row is
\* System Error with the exception's message and score 0, and runJudge does
\* not reject
C14_CaughtAsSystemError ==
    out.error # "" =>
        /\ out.row.status \in {"Judging", "System Error"}
        /\ out.row.status = "System Error" =>
              out.row = [status |-> "System Error", score |-> 0,
                         compiler_output |-> out.error]
        /\ out.runJudge \notin {"rejecting", "rejected"}
        /\ pc = "done" => out.runJudge = "resolved" /\ out.row.status = "System Error"

\* C15: once the handler and runJudge have finished, a submission
\* acknowledged with 202 no longer has the status Judging
C15_JudgingEnds ==
    pc = "done" /\ out.response = "202" => out.row.status # "Judging"

\* C16: judgeSubmission is called only after the row was inserted and the
\* request acknowledged with 202, never more than once, and once for every
\* acknowledged request when the handler and runJudge have finished; a
\* request answered with an error status never schedules runJudge
C16_AcknowledgedThenJudgedOnce ==
    /\ out.starts <= 1
    /\ out.starts = 1 \/ out.runJudge # "idle"
          => out.response = "202" /\ out.row.status # "none"
    /\ out.response \in {"400", "404", "500"} => out.starts = 0 /\ out.runJudge = "idle"
    /\ pc \in {"engine", "update", "catch", "finally"} => out.starts = 1
    /\ pc = "done" /\ out.response = "202" => out.starts = 1

ProbeUnavailable == platform.win32 \/ ~platform.timeInstalled

\* C17: without the memory probe every result has memoryKb null and none is
\* Memory Limit Exceeded; a result is Memory Limit Exceeded only where its
\* run neither timed out nor exited non-zero and a number greater than the
\* memory limit was read for it
C17_MemoryLimitNeedsReading ==
    /\ ProbeUnavailable =>
          /\ \A k \in 1..Len(results) :
                results[k].memoryKb.isNull /\ results[k].status # "Memory Limit Exceeded"
          /\ ret.exec.memoryKb.isNull /\ ret.verdict # "Memory Limit Exceeded"
    /\ \A k \in 1..Len(results) :
          results[k].status = "Memory Limit Exceeded" =>
             /\ ~ProbeUnavailable
             /\ ~results[k].memoryKb.isNull
             /\ ~MemoryLimitKb.isNull
             /\ results[k].memoryKb.n > MemoryLimitKb.n
             /\ \A i \in ProcOf("run", k) :
                   /\ ~RunFailed(procLog[i].run.result)
                   /\ procLog[i].run.timeFile = Txt(FileOver)

\* without the probe a run whose side file would read over the limit is
\* Accepted with memoryKb null
C17_Witness ==
    /\ ProbeUnavailable
    /\ \E k \in 1..Len(results) : \E i \in ProcOf("run", k) :
          /\ procLog[i].run.timeFile = Txt(FileOver)
          /\ results[k].status = "Accepted"
          /\ results[k].memoryKb.isNull

\* C18: under default judging a testcase whose run is OK is Accepted exactly
\* where its expected output and the stdout of its run are equal after CRLF
\* is collapsed to LF and trailing white space removed, and Wrong Answer
\* otherwise; the expected output is the stored text with its escapes decoded
C18_DefaultJudgeComparesNormalized ==
    \A k \in 1..Len(results) : \A i \in ProcOf("run", k) :
        trace[k].how = "diff" =>
            results[k].status =
                IF normalizeOutput(procLog[i].run.result.stdout)
                     = normalizeOutput(normalizeTestcaseText(testcases[k].expected_output))
                THEN "Accepted" ELSE "Wrong Answer"

\* C19: every value judgeSubmission returns has verdict, compileOutput,
\* results, score, maxTimeMs and maxMemoryKb
C19_ReturnShape ==
    entry = "judgeSubmission" /\ ret.kind = "return" =>
        {"verdict", "compileOutput", "results", "score", "maxTimeMs", "maxMemoryKb"}
            \subseteq ret.keys

\* C20: runCode verifies no output: it returns Compilation Error where the
\* compiler failed, Ran where the run classifies as OK and the status of the
\* run otherwise, never OK, Accepted or Wrong Answer
C20_RunCodeStatus ==
    entry = "runCode" =>
        /\ trace = <<>> /\ results = <<>>
        /\ \A i \in 1..Len(procLog) : procLog[i].kind \in {"compile", "run"}
        /\ ret.kind = "return" =>
              /\ ret.verdict \notin {"OK", "Accepted", "Wrong Answer"}
              /\ ~compileResult.ok => ret.verdict = "Compilation Error" /\ ret.exec = NoExec
              /\ compileResult.ok =>
                    /\ ret.exec = execResult
                    /\ ret.verdict = "Ran" <=> execResult.status = "OK"
                    /\ ret.verdict # "Ran" => ret.verdict = execResult.status
                    /\ \A i \in ProcOf("run", 1) :
                          /\ RunFailed(procLog[i].run.result)
                                => ret.verdict \in {"Time Limit Exceeded", "Runtime Error"}
                          /\ ret.verdict = "Ran" => ~RunFailed(procLog[i].run.result)

\* runCode returned Ran for a run that printed nothing
C20_Witness ==
    /\ entry = "runCode"
    /\ pc = "returned"
    /\ ret.verdict = "Ran"
    /\ ret.exec.output = NullText
    /\ \E i \in ProcOf("run", 1) : procLog[i].run.result.stdout = <<>>

\* C21: for a run command that yields no usable argument list (absent,
\* malformed JSON text, JSON text of something that is not a list, an empty
\* list) executeProgram does not throw and returns System Error with the
\* message that the run command is not configured
C21_UnusableCommandIsSystemError ==
    pc = "classified" /\ ~UsableRunCommand(call.language) =>
        /\ ~out.threw
        /\ out.result = NoCommandResult

\* what the claim C22 gives for a compiler that has closed
CompilerVerdict(r, res) ==
    LET diagnostic == Trim(r.stdout \o r.stderr)
    IN  /\ res.ok <=> (~r.timedOut /\ r.exitCode = Num(0))
        /\ diagnostic # <<>> => res.output = Txt(diagnostic)
        /\ diagnostic = <<>> /\ res.ok => res.output = NullText

\* C22: compileIfNeeded returns ok = true and output null without spawning
\* a process where the language has no compile template; where a compiler
\* has run it returns ok = false exactly where the compiler timed out or
\* did not exit with code 0, and the diagnostic text is kept either way
C22_CompileResult ==
    /\ ~Truthy(normalizeCommand(language.compile_command)) =>
          /\ compileResult = NoCompile
          /\ \A i \in 1..Len(procLog) : procLog[i].kind # "compile"
    /\ ~Truthy(normalizeCommand(checker.language.compile_command)) =>
          /\ checkerCompile = NoCompile
          /\ \A i \in 1..Len(procLog) : procLog[i].kind # "checkerCompile"
    /\ \A i \in ProcOf("compile", 0) :
          CompilerVerdict(procLog[i].run.result, compileResult)
    /\ \A i \in ProcOf("checkerCompile", 0) :
          CompilerVerdict(procLog[i].run.result, checkerCompile)

\* a compiler that exited with 0 and a warning: ok with the warning kept
C22_Witness ==
    /\ Completed
    /\ compileResult.ok
    /\ compileResult.output = Txt(Trim(CompilerWarning))
    /\ \E i \in ProcOf("compile", 0) :
          procLog[i].run.result = Exit(0, <<>>, CompilerWarning)

\* C24: when the promise of runProcess resolves neither the child nor a
\* program wrapped by the memory probe is still running, and spawn was
\* called once
C24_NothingRunsPastResolution ==
    /\ out.spawns <= 1
    /\ pc = "resolved" =>
          /\ out.spawns = 1
          /\ out.child # "alive"
          /\ out.program # "alive"

\* C30: a resolved runProcess reports timedOut only where the timer fired
\* while the program was still running: a program that had ended by itself
\* is not reported as timed out
C30_TimedOutOnlyIfStillRunning ==
    pc = "resolved" /\ out.timedOut => ~out.late

\* C23: every call of getTimeCommandPath in one engine process returns
\* the same value, the path of the probe where it is present and null
\* otherwise, however the calls interleave, and fs.access is called at
\* most once
C23_OneAnswerForAllCallers ==
    /\ call <= 1
    /\ \A c \in Callers :
          pc[c] = "returned" =>
              out[c] = IF ~platform.win32 /\ platform.timeInstalled
                       THEN Txt(TIME_COMMAND_PATH) ELSE NullText

\* the stage a process belongs to: the candidate's compiler, the checker's
\* compiler, the testcases
Stage(kind) ==
    CASE kind = "compile" -> 1
      [] kind = "checkerCompile" -> 2
      [] OTHER -> 3

\* C25: judgeSubmission compiles the candidate, then sets up and compiles
\* the checker, then runs the testcases, then aggregates.  The checker
\* workspace exists and the checker is compiled only under custom judging
\* after the candidate compiled; under default judging a supplied checker is
\* neither compiled nor run; no testcase runs before both stages succeeded;
\* a checker that does not compile gives System Error
C25_StagesInOrder ==
    entry = "judgeSubmission" =>
        /\ \A i, j \in 1..Len(procLog) :
              i < j => Stage(procLog[i].kind) <= Stage(procLog[j].kind)
        /\ checkerWorkDir \/ (\E i \in 1..Len(procLog) : procLog[i].kind = "checkerCompile")
              => /\ problem.judge_type = "custom"
                 /\ compileResult.ok
                 /\ pc \notin {"mkdtemp", "writeFile", "compile", "compileProc", "compiled"}
        /\ problem.judge_type # "custom" =>
              /\ "checker" \notin dirs
              /\ ~checkerContext
              /\ \A i \in 1..Len(procLog) : procLog[i].kind \notin {"checkerCompile", "checker"}
        /\ (\E i \in 1..Len(procLog) : Stage(procLog[i].kind) = 3) \/ results # <<>> =>
              /\ compileResult.ok
              /\ pc \notin {"mkdtemp", "writeFile", "compile", "compileProc", "compiled",
                            "checkerMkdtemp", "checkerWriteFile", "checkerCompile",
                            "checkerCompileProc", "checkerCompiled"}
              /\ problem.judge_type = "custom" => checkerContext /\ checkerCompile.ok
        /\ ret.kind = "return" /\ "score" \in ret.keys =>
              Len(results) = Len(testcases) /\ ret.results = results
        /\ ret.kind = "return" /\ ~checkerCompile.ok =>
              ret.verdict = "System Error" /\ ret.results = <<>>

\* both compilers ran in order, the checker's failed: System Error
C25_Witness ==
    /\ pc = "returned"
    /\ entry = "judgeSubmission"
    /\ Len(procLog) = 2
    /\ procLog[1].kind = "compile"
    /\ procLog[2].kind = "checkerCompile"
    /\ ~checkerCompile.ok
    /\ ret.verdict = "System Error"
    /\ testcases # <<>>

\* the processes of the call that are running
Running ==
    {i \in 1..Len(procLog) :
        \/ procLog[i].left
        \/ /\ i = Len(procLog)
           /\ ~procLog[i].closed
           /\ pc \in {"compileProc", "checkerCompileProc", "runProc", "checkerProc"}}

\* C26: within one judgeSubmission call at most one process (a compiler, a
\* run of the candidate, a run of the checker) is alive at any time; the
\* run of a testcase is spawned once the run, the checker and the onResult
\* of the testcase before it are done
C26_OneProcessAtATime ==
    entry = "judgeSubmission" =>
        /\ Cardinality(Running) <= 1
        /\ \A i \in 1..Len(procLog) : i < Len(procLog) => procLog[i].closed
        /\ pc \in {"runProc", "checkerProc"} =>
              /\ procLog[Len(procLog)].index = Len(results) + 1
              /\ onResult => Len(onResultLog) = Len(results)

\* onResult has been given each result pushed, in order, and nothing of the
\* next testcase has begun while its promise is pending
OnResultInStep ==
    entry = "judgeSubmission" /\ onResult =>
        /\ onResultLog = results
        /\ \A k \in 1..Len(results) : results[k].testcaseId = testcases[k].id
        /\ pc = "onResult" =>
              \A i \in 1..Len(procLog) : procLog[i].closed /\ procLog[i].index <= Len(results)
        /\ ret.kind = "return" /\ "score" \in ret.keys => Len(onResultLog) = Len(testcases)
        /\ ret.thrown = "onResult" =>
              /\ pc \in {"rmWork", "rmChecker", "rejected"}
              /\ \A i \in 1..Len(procLog) : procLog[i].index <= Len(results)

\* C27: onResult is invoked once for each testcase executed, in order, with
\* the result of that testcase, and is awaited before the next testcase
\* starts and before the call returns; where onResult throws no further
\* testcase is run and the call rejects once its workspaces are deleted
C27_OnResultOncePerTestcase ==
    /\ []OnResultInStep
    /\ [][ret.thrown = "onResult" /\ pc' = "rejected" => dirs' = {}]_vars

\* C28: where the candidate compiled, the checker was set up and nothing
\* threw, every testcase supplied was run, also after one that was not
\* Accepted: there is one result for each testcase, in the order supplied,
\* and one run of the candidate for each
C28_EveryTestcaseRuns ==
    Aggregated =>
        /\ Len(ret.results) = Len(testcases)
        /\ \A k \in 1..Len(testcases) :
              /\ ret.results[k].testcaseId = testcases[k].id
              /\ Cardinality(ProcOf("run", k)) <= 1
              /\ ProcOf("run", k) = {} =>
                    /\ ret.results[k].status = "System Error"
                    /\ ret.results[k].error = Txt(MsgRunNotConfigured)

\* the first testcase timed out and the second was run and Accepted
C28_Witness ==
    /\ pc = "returned"
    /\ Aggregated
    /\ Len(testcases) = 2
    /\ ret.results[1].status = "Time Limit Exceeded"
    /\ ret.results[2].status = "Accepted"
    /\ ProcOf("run", 2) # {}

TestcaseStatuses ==
    {"Accepted", "Wrong Answer", "Time Limit Exceeded", "Memory Limit Exceeded",
     "Runtime Error", "System Error"}

\* C29: every result of a testcase has one of the six statuses Accepted,
\* Wrong Answer, Time Limit Exceeded, Memory Limit Exceeded, Runtime Error,
\* System Error: neither OK nor Compilation Error, under default and under
\* custom judging
C29_TestcaseStatuses ==
    /\ \A k \in 1..Len(results) : results[k].status \in TestcaseStatuses
    /\ \A k \in 1..Len(onResultLog) : onResultLog[k].status \in TestcaseStatuses
    /\ \A k \in 1..Len(ret.results) : ret.results[k].status \in TestcaseStatuses

\* a run that was OK, judged by the checker and by comparison
C29_Witness ==
    /\ pc = "returned"
    /\ Len(ret.results) = 1
    /\ trace[1].exec.status = "OK"
    /\ \/ problem.judge_type = "custom" /\ trace[1].how = "checker"
          /\ ret.results[1].status = "Wrong Answer"
       \/ problem.judge_type = "default" /\ trace[1].how = "diff"
          /\ ret.results[1].status = "Accepted"

=============================================================================
